---- MODULE Spec2Model ----
(***************************************************************************)
(* Event-driven hard-sphere simulator (src/src): balls, walls, cell grid,  *)
(* event heap with lazy invalidation, predictors, resolvers and the main   *)
(* loop of run_simulation, for ndim = 2.                                   *)
(*                                                                         *)
(* Arithmetic.  The program computes in f64; the model computes in exact   *)
(* fixed point: a length is an integer number of 1/CellSize cells, a time  *)
(* an integer number of ticks, a velocity an integer number of length      *)
(* units per tick.  A predictor or resolver result that is not such an     *)
(* integer is reported as Inexact and the run is followed no further, so   *)
(* every state of the model is a state of an exact run of the program.     *)
(* The program's tolerances (1e-12 on times and speeds, 1e-24 on squares)  *)
(* are far below one unit: "x > 1e-12" is "x > 0" on integers.             *)
(***************************************************************************)
EXTENDS Integers, Sequences, FiniteSets, TLC

(***************************************************************************)
(* Bounds of the model.                                                    *)
(***************************************************************************)
MaxBalls == 2
MaxMoving == 2
MaxCellsX == 2
MaxCellsY == 2
MaxSpeed == 1
MaxSimTime == 80

(***************************************************************************)
(* Program constants, in model units.                                      *)
(***************************************************************************)
ndim == 2
CellSize == 100
Inset == 1
HalfG == 2
MaxRadius == 50

None == -1
Inexact == -2

Axes == 0 .. (ndim - 1)

Radii == {31, MaxRadius}
Rates == {40}
SimTimes == {MaxSimTime}
Restitutions == {0, 1}

(***************************************************************************)
(* Exact arithmetic helpers.                                               *)
(***************************************************************************)
Abs(x) == IF x < 0 THEN -x ELSE x

Dot(u, v) == u[0] * v[0] + u[1] * v[1]

RECURSIVE ISqrtIn(_, _, _)
ISqrtIn(n, lo, hi) ==
  IF lo >= hi THEN lo
  ELSE LET mid == (lo + hi + 1) \div 2
       IN IF mid * mid <= n THEN ISqrtIn(n, mid, hi) ELSE ISqrtIn(n, lo, mid - 1)

\* floor of the square root of n >= 0 (math.sqrt, exact on perfect squares)
ISqrt(n) == ISqrtIn(n, 0, IF n < 46340 THEN n ELSE 46340)

\* (num + sgn*sqrt(disc)) / den > lo, decided without rounding (den # 0)
RootAbove(num, sgn, disc, den, lo) ==
  LET m == IF den > 0 THEN num - lo * den ELSE lo * den - num
      s == IF den > 0 THEN sgn ELSE -sgn
  IN IF s > 0 THEN m > 0 \/ disc > m * m
     ELSE m > 0 /\ m * m > disc

\* the value (num + sgn*sqrt(disc)) / den when it is an integer, else Inexact
RootValue(num, sgn, disc, den) ==
  LET s == ISqrt(disc)
      n == num + sgn * s
      q == IF den > 0 THEN n ELSE -n
      d == Abs(den)
  IN IF s * s # disc THEN Inexact
     ELSE IF q % d = 0 THEN q \div d ELSE Inexact

\* a / b when exact (b # 0), else Inexact; truncation never happens
ExactDiv(a, b) ==
  LET q == IF b > 0 THEN a ELSE -a
      d == Abs(b)
  IN IF q % d = 0 THEN q \div d ELSE Inexact

(***************************************************************************)
(* wall.py                                                                 *)
(***************************************************************************)
Wall(normal_axis, coordinate) == [normal_axis |-> normal_axis, coordinate |-> coordinate]

\* 2D box: the list order is bottom, top, left, right
create_box_walls(box_size) ==
  << Wall(1, Inset), Wall(1, box_size[1] - Inset),
     Wall(0, Inset), Wall(0, box_size[0] - Inset) >>

(***************************************************************************)
(* ball.py                                                                 *)
(***************************************************************************)
Ball(position, velocity, radius, index, cell) ==
  [position |-> position, velocity |-> velocity, radius |-> radius,
   index |-> index, cell |-> cell, time |-> 0, events |-> << >>]

\* Ball.get_position_at_time for t >= ball.time (the caller checks dt < 0)
get_position_at_time(ball, t, gravity) ==
  LET dt == t - ball.time
  IN [a \in Axes |->
        ball.position[a] + ball.velocity[a] * dt
          - (IF gravity /\ a = 1 THEN HalfG * dt * dt ELSE 0)]

get_velocity_at_time(ball, t, gravity) ==
  LET dt == t - ball.time
  IN [a \in Axes |->
        ball.velocity[a] - (IF gravity /\ a = 1 THEN 2 * HalfG * dt ELSE 0)]

\* peek: (p(t), v(t)) of the ball, nothing mutated
get_position_and_velocity_at_time(ball, t, gravity) ==
  [pos |-> get_position_at_time(ball, t, gravity),
   vel |-> get_velocity_at_time(ball, t, gravity)]

\* mutant of update_to_time: the local time is not set
update_to_time_stale(ball, t, gravity) ==
  [ball EXCEPT !.position = get_position_at_time(ball, t, gravity),
               !.velocity = get_velocity_at_time(ball, t, gravity)]

\* Ball.update_to_time for t >= ball.time
update_to_time(ball, t, gravity) ==
  [ball EXCEPT !.position = get_position_at_time(ball, t, gravity),
               !.velocity = get_velocity_at_time(ball, t, gravity),
               !.time = t]

\* mutant of PastTime: the check of dt < 0 is missing
PastTime_unchecked(ball, t) == FALSE

\* the ValueError of get_position_at_time / update_to_time
PastTime(ball, t) == t < ball.time

(***************************************************************************)
(* grid.py                                                                 *)
(***************************************************************************)
CellKey(cell) == << cell[0], cell[1] >>

\* Grid.__init__: num_cells per axis and one empty list per cell
Grid(num_cells) ==
  [num_cells |-> num_cells,
   cells |-> [k \in (0 .. (num_cells[0] - 1)) \X (0 .. (num_cells[1] - 1)) |-> << >>]]

\* Grid._is_valid_cell
is_valid_cell(grid, cell) ==
  \A i \in Axes : ~(cell[i] < 0 \/ cell[i] >= grid.num_cells[i])

\* a Python list index: i in -n .. n-1 addresses an element, anything else raises
IndexInRange(i, n) == -n <= i /\ i < n
ListIndex(i, n) == IF i < 0 THEN i + n ELSE i

\* self.cells[cell[0]][cell[1]] does not raise IndexError
CellAddressable(grid, cell) ==
  \A i \in Axes : IndexInRange(cell[i], grid.num_cells[i])

\* the list that self.cells[cell[0]][cell[1]] denotes (negative indices wrap)
CellSlot(grid, cell) ==
  << ListIndex(cell[0], grid.num_cells[0]), ListIndex(cell[1], grid.num_cells[1]) >>

\* list.remove(x): drops the first occurrence of x
RECURSIVE ListRemove(_, _)
ListRemove(list, x) ==
  IF list = << >> THEN << >>
  ELSE IF Head(list) = x THEN Tail(list)
  ELSE << Head(list) >> \o ListRemove(Tail(list), x)

ListHas(list, x) == \E k \in 1 .. Len(list) : list[k] = x

\* Grid.add_ball (the cell is addressable)
add_ball(grid, ball_index, cell) ==
  [grid EXCEPT !.cells[CellSlot(grid, cell)] = Append(@, ball_index)]

\* Grid.remove_ball (the cell is addressable and lists the ball)
remove_ball(grid, ball_index, cell) ==
  [grid EXCEPT !.cells[CellSlot(grid, cell)] = ListRemove(@, ball_index)]

\* Grid.move_ball
move_ball(grid, ball_index, old_cell, new_cell) ==
  add_ball(remove_ball(grid, ball_index, old_cell), ball_index, new_cell)

Offsets == << -1, 0, 1 >>

\* concatenation of the lists of the valid cells among a sequence of cells
RECURSIVE BallsInCells(_, _)
BallsInCells(grid, cellseq) ==
  IF cellseq = << >> THEN << >>
  ELSE (IF is_valid_cell(grid, Head(cellseq))
        THEN grid.cells[CellKey(Head(cellseq))] ELSE << >>)
       \o BallsInCells(grid, Tail(cellseq))

\* Grid.get_balls_in_neighboring_cells, 2D: di outer loop, dj inner loop
get_balls_in_neighboring_cells(grid, cell) ==
  BallsInCells(grid,
    [k \in 1 .. 9 |->
       [a \in Axes |-> IF a = 0 THEN cell[0] + Offsets[((k - 1) \div 3) + 1]
                                ELSE cell[1] + Offsets[((k - 1) % 3) + 1]]])

\* mutant of get_balls_in_new_neighbor_cells: every neighbour of new_cell
get_balls_in_new_neighbor_cells_all(grid, old_cell, new_cell) ==
  get_balls_in_neighboring_cells(grid, new_cell)

\* Grid.get_balls_in_new_neighbor_cells, 2D
get_balls_in_new_neighbor_cells(grid, old_cell, new_cell) ==
  LET movement == [i \in Axes |-> new_cell[i] - old_cell[i]]
      xs == IF movement[0] # 0
            THEN BallsInCells(grid,
                   [k \in 1 .. 3 |->
                      [a \in Axes |-> IF a = 0 THEN new_cell[0] + movement[0]
                                               ELSE new_cell[1] + Offsets[k]]])
            ELSE << >>
      ys == IF movement[1] # 0
            THEN BallsInCells(grid,
                   [k \in 1 .. 3 |->
                      [a \in Axes |-> IF a = 0 THEN new_cell[0] + Offsets[k]
                                               ELSE new_cell[1] + movement[1]]])
            ELSE << >>
  IN xs \o ys

(***************************************************************************)
(* events.py: the event objects.  An event is its id in the event table;   *)
(* the table holds the fields, the valid flag included, of the events that *)
(* are still referenced (by the heap, by a ball's list, or as the event    *)
(* being processed).                                                       *)
(***************************************************************************)
NoCell == [a \in Axes |-> 0]

Event(kind, time, ball1, ball2, wall, new_cell) ==
  [kind |-> kind, time |-> time, valid |-> TRUE,
   ball1 |-> ball1, ball2 |-> ball2, wall |-> wall, new_cell |-> new_cell]

BallBallCollision(time, ball1, ball2) == Event("BallBallCollision", time, ball1, ball2, None, NoCell)
BallWallCollision(time, ball, wall) == Event("BallWallCollision", time, ball, None, wall, NoCell)
BallGridTransit(time, ball, new_cell) == Event("BallGridTransit", time, ball, None, None, new_cell)
ExportEvent(time) == Event("ExportEvent", time, None, None, None, NoCell)
EndEvent(time) == Event("EndEvent", time, None, None, None, NoCell)

\* Event.get_participants restricted to balls
Mentions(e, b) == (e.ball1 = b \/ e.ball2 = b)

\* mutant of Lt: the later event compares as the smaller one
Lt_reversed(ev, x, y) == ev[x].time > ev[y].time

\* mutant of Lt: events of equal time compare by object identity
Lt_by_identity(ev, x, y) ==
  ev[x].time < ev[y].time \/ (ev[x].time = ev[y].time /\ x < y)

\* Event.__lt__
Lt(ev, x, y) == ev[x].time < ev[y].time

(***************************************************************************)
(* event_heap.py over heapq: the heap is a 0-based array of event ids,     *)
(* kept in a sequence (position p is element p + 1).                       *)
(***************************************************************************)
RECURSIVE siftdown_loop(_, _, _, _, _)
siftdown_loop(ev, heap, startpos, pos, newitem) ==
  IF pos > startpos
  THEN LET parentpos == (pos - 1) \div 2
           parent == heap[parentpos + 1]
       IN IF Lt(ev, newitem, parent)
          THEN siftdown_loop(ev, [heap EXCEPT ![pos + 1] = parent], startpos, parentpos, newitem)
          ELSE [heap EXCEPT ![pos + 1] = newitem]
  ELSE [heap EXCEPT ![pos + 1] = newitem]

\* heapq._siftdown
siftdown(ev, heap, startpos, pos) == siftdown_loop(ev, heap, startpos, pos, heap[pos + 1])

RECURSIVE siftup_loop(_, _, _, _)
siftup_loop(ev, heap, pos, newitem) ==
  LET endpos == Len(heap)
      childpos == 2 * pos + 1
  IN IF childpos < endpos
     THEN LET rightpos == childpos + 1
              c == IF rightpos < endpos /\ ~Lt(ev, heap[childpos + 1], heap[rightpos + 1])
                   THEN rightpos ELSE childpos
          IN siftup_loop(ev, [heap EXCEPT ![pos + 1] = heap[c + 1]], c, newitem)
     ELSE [heap |-> [heap EXCEPT ![pos + 1] = newitem], pos |-> pos]

\* heapq._siftup
siftup(ev, heap, pos) ==
  LET r == siftup_loop(ev, heap, pos, heap[pos + 1])
  IN siftdown(ev, r.heap, pos, r.pos)

\* mutant of add_event: the event is appended to the list, nothing is sifted
add_event_appending(ev, heap, event) == Append(heap, event)

\* heapq.heappush / EventHeap.add_event
add_event(ev, heap, event) == siftdown(ev, Append(heap, event), 0, Len(heap))

\* heapq.heappop on a non-empty heap: the item returned and the heap left
heappop(ev, heap) ==
  LET lastelt == heap[Len(heap)]
      rest == SubSeq(heap, 1, Len(heap) - 1)
  IN IF rest # << >>
     THEN [item |-> heap[1], heap |-> siftup(ev, [rest EXCEPT ![1] = lastelt], 0)]
     ELSE [item |-> lastelt, heap |-> rest]

\* mutant of get_next_event: the popped event is returned whatever its flag
get_next_event_unfiltered(ev, heap) ==
  IF heap = << >> THEN [event |-> None, heap |-> heap]
  ELSE LET r == heappop(ev, heap)
       IN [event |-> r.item, heap |-> r.heap]

\* mutant of get_next_event: an "if" for the "while", it gives up at the first
\* invalid event
get_next_event_giving_up(ev, heap) ==
  IF heap = << >> THEN [event |-> None, heap |-> heap]
  ELSE LET r == heappop(ev, heap)
       IN IF ev[r.item].valid THEN [event |-> r.item, heap |-> r.heap]
          ELSE [event |-> None, heap |-> r.heap]

\* EventHeap.get_next_event: the event returned (None if none) and the heap left
RECURSIVE get_next_event(_, _)
get_next_event(ev, heap) ==
  IF heap = << >> THEN [event |-> None, heap |-> heap]
  ELSE LET r == heappop(ev, heap)
       IN IF ev[r.item].valid THEN [event |-> r.item, heap |-> r.heap]
          ELSE get_next_event(ev, r.heap)

\* EventHeap.is_empty, EventHeap.size
is_empty(heap) == Len(heap) = 0
size(heap) == Len(heap)

\* pushes a sequence of events in order
RECURSIVE add_events(_, _, _)
add_events(ev, heap, ids) ==
  IF ids = << >> THEN heap
  ELSE add_events(ev, add_event(ev, heap, Head(ids)), Tail(ids))

(***************************************************************************)
(* physics.py: predictors.  A predictor returns a time, None, Inexact      *)
(* (the time is not a whole number of ticks) or Raises (the ValueError of  *)
(* a peek before the ball's local time).                                   *)
(***************************************************************************)
Raises == -3

IsTime(t) == t >= 0

\* smallest root above 0 of a*t^2 + b*t + c = 0 with a > 0, as the code
\* selects it from t1 = (-b - sqrt(disc))/(2a) and t2 = (-b + sqrt(disc))/(2a)
EarliestPositiveRoot(a, b, c) ==
  LET discriminant == b * b - 4 * a * c
  IN IF discriminant < 0 THEN None
     ELSE IF RootAbove(-b, -1, discriminant, 2 * a, 0)
          THEN RootValue(-b, -1, discriminant, 2 * a)
     ELSE IF RootAbove(-b, 1, discriminant, 2 * a, 0)
          THEN RootValue(-b, 1, discriminant, 2 * a)
     ELSE None

\* mutant of After: the time from now is returned as if it were absolute
After_relative(current_time, dt) == dt

\* current_time + dt for a relative result dt
After(current_time, dt) == IF IsTime(dt) THEN current_time + dt ELSE dt

calculate_ball_ball_collision_time(ball1, ball2, current_time, gravity) ==
  LET r == ball1.radius + ball2.radius
  IN IF ~gravity
     THEN IF PastTime(ball1, current_time) \/ PastTime(ball2, current_time) THEN Raises
          ELSE
          LET pv1 == get_position_and_velocity_at_time(ball1, current_time, gravity)
              pv2 == get_position_and_velocity_at_time(ball2, current_time, gravity)
              rel_pos == [i \in Axes |-> pv2.pos[i] - pv1.pos[i]]
              rel_vel == [i \in Axes |-> pv2.vel[i] - pv1.vel[i]]
              pos_dot_vel == Dot(rel_pos, rel_vel)
              rel_vel_sq == Dot(rel_vel, rel_vel)
              rel_pos_sq == Dot(rel_pos, rel_pos)
          IN IF pos_dot_vel > 0 THEN None
             ELSE IF rel_vel_sq = 0 THEN None
             ELSE After(current_time,
                        EarliestPositiveRoot(rel_vel_sq, 2 * pos_dot_vel, rel_pos_sq - r * r))
     ELSE
       \* d(t) = A + B*t; with t = current_time + dt this is D + B*dt, where
       \* D = A + B*current_time, and the roots above current_time are the
       \* roots dt above 0
       LET t0 == ball1.time
           t1 == ball2.time
           g == [i \in Axes |-> IF i = 1 THEN -2 * HalfG ELSE 0]
           A == [i \in Axes |->
                   (ball2.position[i] - ball1.position[i])
                   + ball1.velocity[i] * t0 - ball2.velocity[i] * t1
                   + (g[i] * (t1 * t1 - t0 * t0)) \div 2]
           B == [i \in Axes |-> (ball2.velocity[i] - ball1.velocity[i]) + g[i] * (t0 - t1)]
           D == [i \in Axes |-> A[i] + B[i] * current_time]
           a_coeff == Dot(B, B)
           b_coeff == 2 * Dot(D, B)
           c_coeff == Dot(D, D) - r * r
       IN IF a_coeff = 0 THEN None
          ELSE After(current_time, EarliestPositiveRoot(a_coeff, b_coeff, c_coeff))

calculate_ball_wall_collision_time(ball, wall, current_time, gravity) ==
  IF PastTime(ball, current_time) THEN Raises
  ELSE
  LET pv == get_position_and_velocity_at_time(ball, current_time, gravity)
      wall_axis == wall.normal_axis
      ball_to_wall == wall.coordinate - pv.pos[wall_axis]
      collision_coord == IF ball_to_wall > 0 THEN wall.coordinate - ball.radius
                         ELSE wall.coordinate + ball.radius
      velocity_component == pv.vel[wall_axis]
  IN IF wall_axis = 1 /\ gravity
     THEN After(current_time,
                EarliestPositiveRoot(HalfG, -pv.vel[1], collision_coord - pv.pos[1]))
     ELSE IF velocity_component = 0 THEN None
     ELSE LET collision_distance == collision_coord - pv.pos[wall_axis]
          IN IF collision_distance * velocity_component <= 0 THEN None
             ELSE After(current_time, ExactDiv(collision_distance, velocity_component))

\* one boundary of one axis: the crossing times the code examines, in its order
TransitCandidates(pv, cell, axis, boundary, new_coord, gravity) ==
  LET target == [cell EXCEPT ![axis] = new_coord]
      cand(t) == [time |-> t, new_cell |-> target]
  IN IF axis = 1 /\ gravity
     THEN LET a == -HalfG
              b == pv.vel[1]
              c == pv.pos[1] - boundary
              discriminant == b * b - 4 * a * c
          IN IF discriminant >= 0
             THEN << cand(IF RootAbove(-b, 1, discriminant, 2 * a, 0)
                          THEN RootValue(-b, 1, discriminant, 2 * a) ELSE None),
                     cand(IF RootAbove(-b, -1, discriminant, 2 * a, 0)
                          THEN RootValue(-b, -1, discriminant, 2 * a) ELSE None) >>
             ELSE << >>
     ELSE << cand(IF (boundary - pv.pos[axis]) * pv.vel[axis] > 0
                  THEN ExactDiv(boundary - pv.pos[axis], pv.vel[axis]) ELSE None) >>

AxisCandidates(pv, cell, axis, cell_size, gravity) ==
  IF pv.vel[axis] = 0 /\ ~(axis = 1 /\ gravity) THEN << >>
  ELSE LET left_boundary == cell[axis] * cell_size
           right_boundary == (cell[axis] + 1) * cell_size
       IN TransitCandidates(pv, cell, axis, left_boundary, cell[axis] - 1, gravity)
          \o TransitCandidates(pv, cell, axis, right_boundary, cell[axis] + 1, gravity)

\* mutant of EarliestCandidate: a candidate at the same time replaces the
\* earliest one, the last axis wins a tie
RECURSIVE EarliestCandidate_last_wins(_, _)
EarliestCandidate_last_wins(cands, best) ==
  IF cands = << >> THEN best
  ELSE LET c == Head(cands)
       IN IF c.time = Inexact \/ best.time = Inexact
          THEN [time |-> Inexact, new_cell |-> NoCell]
          ELSE IF IsTime(c.time) /\ (best.time = None \/ c.time <= best.time)
          THEN EarliestCandidate_last_wins(Tail(cands), c)
          ELSE EarliestCandidate_last_wins(Tail(cands), best)

\* the running minimum of the code: a candidate replaces the earliest one
\* only when it is strictly earlier
RECURSIVE EarliestCandidate(_, _)
EarliestCandidate(cands, best) ==
  IF cands = << >> THEN best
  ELSE LET c == Head(cands)
       IN IF c.time = Inexact \/ best.time = Inexact
          THEN [time |-> Inexact, new_cell |-> NoCell]
          ELSE IF IsTime(c.time) /\ (best.time = None \/ c.time < best.time)
          THEN EarliestCandidate(Tail(cands), c)
          ELSE EarliestCandidate(Tail(cands), best)

\* returns [time, new_cell]; time None when there is no transit
calculate_ball_grid_transit_time(ball, current_time, cell_size, gravity) ==
  IF PastTime(ball, current_time) THEN [time |-> Raises, new_cell |-> NoCell]
  ELSE
  LET pv == get_position_and_velocity_at_time(ball, current_time, gravity)
      r == EarliestCandidate(AxisCandidates(pv, ball.cell, 0, cell_size, gravity)
                             \o AxisCandidates(pv, ball.cell, 1, cell_size, gravity),
                             [time |-> None, new_cell |-> NoCell])
  IN [r EXCEPT !.time = After(current_time, r.time)]

(***************************************************************************)
(* physics.py: resolvers.  They return the balls with new velocities; a    *)
(* velocity that is not a whole number of units makes the result Inexact.  *)
(***************************************************************************)
\* the velocity change of ball2 (ball1 gets the opposite)
ball_ball_velocity_change(ball1, ball2, restitution) ==
  LET rel_pos == [i \in Axes |-> ball2.position[i] - ball1.position[i]]
      distance_sq == Dot(rel_pos, rel_pos)
      rel_vel == [i \in Axes |-> ball2.velocity[i] - ball1.velocity[i]]
  IN IF distance_sq = 0
     \* arbitrary normal (1, 0)
     THEN IF rel_vel[0] > 0 THEN [i \in Axes |-> 0]
          ELSE [i \in Axes |-> IF i = 0 THEN ExactDiv(-(1 + restitution) * rel_vel[0], 2) ELSE 0]
     \* normal = rel_pos / distance; vel_along_normal = rel_vel . normal
     ELSE IF Dot(rel_vel, rel_pos) > 0 THEN [i \in Axes |-> 0]
          ELSE [i \in Axes |->
                  ExactDiv(-(1 + restitution) * Dot(rel_vel, rel_pos) * rel_pos[i],
                           2 * distance_sq)]

\* whether a vector of ExactDiv results is exact (0 and negative values are
\* values; Inexact is told apart by the divisibility itself)
ball_ball_exact(ball1, ball2, restitution) ==
  LET rel_pos == [i \in Axes |-> ball2.position[i] - ball1.position[i]]
      distance_sq == Dot(rel_pos, rel_pos)
      rel_vel == [i \in Axes |-> ball2.velocity[i] - ball1.velocity[i]]
  IN IF distance_sq = 0
     THEN rel_vel[0] > 0 \/ ((1 + restitution) * rel_vel[0]) % 2 = 0
     ELSE Dot(rel_vel, rel_pos) > 0
          \/ \A i \in Axes :
               ((1 + restitution) * Dot(rel_vel, rel_pos) * rel_pos[i]) % (2 * distance_sq) = 0

\* mutant of perform_ball_ball_collision: the impulse is applied to ball1 only
perform_ball_ball_collision_one_sided(ball1, ball2, restitution) ==
  LET velocity_change == ball_ball_velocity_change(ball1, ball2, restitution)
  IN << [ball1 EXCEPT !.velocity = [i \in Axes |-> ball1.velocity[i] - velocity_change[i]]],
        ball2 >>

\* perform_ball_ball_collision: the pair << ball1, ball2 >> afterwards
perform_ball_ball_collision(ball1, ball2, restitution) ==
  LET velocity_change == ball_ball_velocity_change(ball1, ball2, restitution)
  IN << [ball1 EXCEPT !.velocity = [i \in Axes |-> ball1.velocity[i] - velocity_change[i]]],
        [ball2 EXCEPT !.velocity = [i \in Axes |-> ball2.velocity[i] + velocity_change[i]]] >>

\* mutant of perform_ball_wall_collision: the normal component is removed, not
\* reflected, whatever the restitution
perform_ball_wall_collision_absorbing(ball, wall, restitution) ==
  LET normal == [i \in Axes |->
                   IF i # wall.normal_axis THEN 0
                   ELSE IF ball.position[wall.normal_axis] < wall.coordinate THEN -1 ELSE 1]
      vel_along_normal == Dot(ball.velocity, normal)
  IN IF vel_along_normal >= 0 THEN ball
     ELSE [ball EXCEPT !.velocity =
             [i \in Axes |-> ball.velocity[i] - vel_along_normal * normal[i]]]

\* perform_ball_wall_collision: the ball afterwards
perform_ball_wall_collision(ball, wall, restitution) ==
  LET normal == [i \in Axes |->
                   IF i # wall.normal_axis THEN 0
                   ELSE IF ball.position[wall.normal_axis] < wall.coordinate THEN -1 ELSE 1]
      vel_along_normal == Dot(ball.velocity, normal)
  IN IF vel_along_normal >= 0 THEN ball
     ELSE [ball EXCEPT !.velocity =
             [i \in Axes |-> ball.velocity[i] - (1 + restitution) * vel_along_normal * normal[i]]]

(***************************************************************************)
(* event_generation.py.  Constructing an event appends it to the event     *)
(* table and to the events list of each ball it mentions.  A generation    *)
(* function works on w = [events, balls, new, status]: the table, the      *)
(* balls, the list of events it returns and "ok", "inexact" or "raises".   *)
(***************************************************************************)
World(events, next_id, balls) ==
  [events |-> events, next_id |-> next_id, balls |-> balls, new |-> << >>, status |-> "ok"]

\* Ball.add_event
ball_add_event(ball, event) == [ball EXCEPT !.events = Append(@, event)]

\* mutant of Construct: a ball-ball event is registered with its first ball only
Construct_one_sided(w, e) ==
  LET id == w.next_id
  IN [w EXCEPT !.events = (id :> e) @@ @, !.next_id = id + 1,
               !.balls[e.ball1] = ball_add_event(@, id), !.new = Append(@, id)]

\* Event.__init__ of the three ball events, then events.append(event)
Construct(w, e) ==
  LET id == w.next_id
      bs1 == [w.balls EXCEPT ![e.ball1] = ball_add_event(@, id)]
      bs2 == IF e.ball2 # None THEN [bs1 EXCEPT ![e.ball2] = ball_add_event(@, id)] ELSE bs1
  IN [w EXCEPT !.events = (id :> e) @@ @, !.next_id = id + 1, !.balls = bs2,
               !.new = Append(@, id)]

\* mutant of Predicted: the test "is not None" is missing, an event is
\* constructed whatever the predictor returned
Predicted_unconditional(w, t, e) ==
  IF w.status # "ok" THEN w
  ELSE IF t = Inexact THEN [w EXCEPT !.status = "inexact"]
  ELSE IF t = Raises THEN [w EXCEPT !.status = "raises"]
  ELSE Construct(w, e)

\* the outcome of one predictor call
Predicted(w, t, e) ==
  IF w.status # "ok" THEN w
  ELSE IF t = Inexact THEN [w EXCEPT !.status = "inexact"]
  ELSE IF t = Raises THEN [w EXCEPT !.status = "raises"]
  ELSE IF t = None THEN w
  ELSE Construct(w, e)

\* Ball.invalidate_all_events: the event table afterwards
RECURSIVE InvalidateList(_, _)
InvalidateList(events, ids) ==
  IF ids = << >> THEN events
  ELSE InvalidateList([events EXCEPT ![Head(ids)].valid = FALSE], Tail(ids))

\* mutant of invalidate_all_events: the list is cleared, the flags are left
invalidate_all_events_clearing(w, ball) ==
  [w EXCEPT !.balls[ball].events = << >>]

invalidate_all_events(w, ball) ==
  [w EXCEPT !.events = InvalidateList(w.events, w.balls[ball].events),
            !.balls[ball].events = << >>]

RECURSIVE generate_ball_ball_events(_, _, _, _, _)
generate_ball_ball_events(w, ball, other_balls, current_time, gravity) ==
  IF other_balls = << >> \/ w.status # "ok" THEN w
  ELSE LET other_ball == Head(other_balls)
           collision_time == calculate_ball_ball_collision_time(
                               w.balls[ball], w.balls[other_ball], current_time, gravity)
           w1 == IF ball = other_ball THEN w
                 ELSE Predicted(w, collision_time,
                                BallBallCollision(collision_time, ball, other_ball))
       IN generate_ball_ball_events(w1, ball, Tail(other_balls), current_time, gravity)

RECURSIVE generate_ball_wall_events(_, _, _, _, _, _)
generate_ball_wall_events(w, ball, walls, k, current_time, gravity) ==
  IF k > Len(walls) \/ w.status # "ok" THEN w
  ELSE LET collision_time == calculate_ball_wall_collision_time(
                               w.balls[ball], walls[k], current_time, gravity)
       IN generate_ball_wall_events(
            Predicted(w, collision_time, BallWallCollision(collision_time, ball, k - 1)),
            ball, walls, k + 1, current_time, gravity)

generate_ball_grid_event(w, ball, current_time, gravity) ==
  IF w.status # "ok" THEN w
  ELSE LET result == calculate_ball_grid_transit_time(w.balls[ball], current_time, CellSize, gravity)
       IN Predicted(w, result.time, BallGridTransit(result.time, ball, result.new_cell))

generate_events_for_ball(w, ball, walls, grid, current_time, gravity) ==
  LET neighbor_ball_indices == get_balls_in_neighboring_cells(grid, w.balls[ball].cell)
      w1 == generate_ball_ball_events(w, ball, neighbor_ball_indices, current_time, gravity)
      w2 == generate_ball_wall_events(w1, ball, walls, 1, current_time, gravity)
  IN generate_ball_grid_event(w2, ball, current_time, gravity)

\* mutant of generate_ball_ball_events_for_new_cell: the ball's events are
\* invalidated first, as a collision handler does
generate_ball_ball_events_for_new_cell_invalidating(w, ball, old_cell, grid, current_time, gravity) ==
  LET new_neighbor_indices == get_balls_in_new_neighbor_cells(grid, old_cell, w.balls[ball].cell)
  IN generate_ball_ball_events(invalidate_all_events(w, ball), ball, new_neighbor_indices, current_time, gravity)

generate_ball_ball_events_for_new_cell(w, ball, old_cell, grid, current_time, gravity) ==
  LET new_neighbor_indices == get_balls_in_new_neighbor_cells(grid, old_cell, w.balls[ball].cell)
  IN generate_ball_ball_events(w, ball, new_neighbor_indices, current_time, gravity)

(***************************************************************************)
(* simulation.py: the state of run_simulation.                             *)
(***************************************************************************)
VARIABLES
  params,        \* the parameter dictionary (never written after validation)
  balls,         \* balls[i]: the Ball of index i
  grid,          \* the Grid
  events,        \* the event objects still referenced, by id
  next_id,       \* the id the next event object gets
  event_heap,    \* EventHeap._heap: a heapq array of event ids
  current_time,  \* time of the most recently popped event
  should_end,    \* simulation_state['should_end']
  event_count,   \* number of events popped by the main loop
  frames,        \* the frames written by OutputManager.write_frame, in order
  pc,            \* "loop", "generate" (inside a collision handler), "done", "aborted"
  cur,           \* the event whose handler is running or ran last (0: none yet)
  error,         \* the exception that ended the run, "none" otherwise
  twin           \* a second EventHeap given the same calls (used by HeapSpec only)

vars == << params, balls, grid, events, next_id, event_heap, current_time, should_end,
           event_count, frames, pc, cur, error, twin >>

\* int(size) and ceil(size) of a length, in cells
IntCells(extent) == extent \div CellSize
CeilCells(extent) == (extent + CellSize - 1) \div CellSize

\* whole numbers of cells, and one width that is not
DomainSizes ==
  { [a \in Axes |-> IF a = 0 THEN x ELSE y] :
      x \in {k * CellSize : k \in 2 .. MaxCellsX} \cup {MaxCellsX * CellSize + CellSize \div 2},
      y \in {k * CellSize : k \in 1 .. MaxCellsY} }

Velocities == [Axes -> {-MaxSpeed, 0, MaxSpeed}]

\* the initial velocities: the balls of index MaxMoving and above are at rest
InitialVelocities(n) ==
  { vel \in [0 .. (n - 1) -> Velocities] :
      \A i \in 0 .. (n - 1) : i >= MaxMoving => \A a \in Axes : vel[i][a] = 0 }

\* the parameter dictionaries accepted by validate_simulation_parameters and
\* by the cell count check of initialize_simulation
ValidParams ==
  { p \in [num_balls : 1 .. MaxBalls, ball_radius : Radii, domain_size : DomainSizes,
           simulation_time : SimTimes, gravity : BOOLEAN,
           ball_restitution : {1}, wall_restitution : Restitutions,
           output_rate : Rates] :
      /\ p.ball_radius > 0 /\ p.ball_radius <= MaxRadius
      /\ \A a \in Axes : p.domain_size[a] > 0
      /\ p.simulation_time > 0
      /\ p.num_balls <= IntCells(p.domain_size[0]) * IntCells(p.domain_size[1]) }

walls == create_box_walls(params.domain_size)

\* initialize_simulation: ball i centred in its own cell, row-major
InitialCell(p, i) ==
  [a \in Axes |-> IF a = 0 THEN i % IntCells(p.domain_size[0])
                  ELSE (i \div IntCells(p.domain_size[0])) % IntCells(p.domain_size[1])]

InitialBall(p, i, velocity) ==
  Ball([a \in Axes |-> InitialCell(p, i)[a] * CellSize + CellSize \div 2],
       velocity, p.ball_radius, i, InitialCell(p, i))

RECURSIVE InitialGrid(_, _, _)
InitialGrid(p, g, i) ==
  IF i >= p.num_balls THEN g
  ELSE InitialGrid(p, add_ball(g, i, InitialCell(p, i)), i + 1)

\* mutant of HigherThan: every neighbour is kept
HigherThan_unfiltered(list, x) == list

\* the elements of a list that are greater than x, in order
RECURSIVE HigherThan(_, _)
HigherThan(list, x) ==
  IF list = << >> THEN << >>
  ELSE (IF Head(list) > x THEN << Head(list) >> ELSE << >>) \o HigherThan(Tail(list), x)

\* run_simulation, initial events: st = [w, heap]; for each ball in index
\* order its events are generated, then pushed
RECURSIVE InitialEvents(_, _, _, _)
InitialEvents(p, g, st, i) ==
  IF i >= p.num_balls \/ st.w.status # "ok" THEN st
  ELSE LET w0 == [st.w EXCEPT !.new = << >>]
           higher_neighbor_balls == HigherThan(get_balls_in_neighboring_cells(g, w0.balls[i].cell), i)
           w1 == generate_ball_ball_events(w0, i, higher_neighbor_balls, 0, p.gravity)
           w2 == generate_ball_wall_events(w1, i, create_box_walls(p.domain_size), 1, 0, p.gravity)
           Pushed(w3) == [w |-> w3, heap |-> add_events(w3.events, st.heap, w3.new)]
       IN InitialEvents(p, g, Pushed(generate_ball_grid_event(w2, i, 0, p.gravity)), i + 1)

\* the export events after the one at 0: export_time += output_rate
\* EventHeap.add_event of a newly constructed administrative event
PushNew(st, e) ==
  LET evs == (st.next_id :> e) @@ st.events
  IN [events |-> evs, next_id |-> st.next_id + 1, heap |-> add_event(evs, st.heap, st.next_id)]

RECURSIVE AddExports(_, _, _)
AddExports(p, st, export_time) ==
  IF export_time <= p.simulation_time
  THEN AddExports(p, PushNew(st, ExportEvent(export_time)), export_time + p.output_rate)
  ELSE st

\* the administrative events: export at 0, the periodic exports, the end event
AdminEvents(p, st) ==
  PushNew(AddExports(p, PushNew(st, ExportEvent(0)), p.output_rate), EndEvent(p.simulation_time))

\* the state in which the main loop starts
Setup(p, vel) ==
  LET bs == [i \in 0 .. (p.num_balls - 1) |-> InitialBall(p, i, vel[i])]
      g == InitialGrid(p, Grid([a \in Axes |-> CeilCells(p.domain_size[a])]), 0)
      Started(st, adm) ==
        [status |-> st.w.status, balls |-> st.w.balls, grid |-> g,
         events |-> adm.events, next_id |-> adm.next_id, heap |-> adm.heap]
      Scheduled(st) ==
        Started(st, AdminEvents(p, [events |-> st.w.events, next_id |-> st.w.next_id,
                                    heap |-> st.heap]))
  IN Scheduled(InitialEvents(p, g, [w |-> World(<< >>, 1, bs), heap |-> << >>], 0))

Init ==
  /\ params \in ValidParams
  /\ \E vel \in InitialVelocities(params.num_balls) :
       \E s \in {Setup(params, vel)} :
          /\ s.status = "ok"
          /\ balls = s.balls
          /\ grid = s.grid
          /\ events = s.events
          /\ next_id = s.next_id
          /\ event_heap = s.heap
  /\ current_time = 0
  /\ should_end = FALSE
  /\ event_count = 0
  /\ frames = << >>
  /\ pc = "loop"
  /\ cur = 0
  /\ error = "none"
  /\ twin = << >>

(***************************************************************************)
(* simulation.py: the main loop.  Each action is one iteration: the pop    *)
(* (EventHeap.get_next_event) and the handler of the popped event.  The    *)
(* collision handlers are in two steps, the second at pc = "generate".     *)
(***************************************************************************)
\* the event objects that are still referenced
Referenced(bs, heap, c) ==
  {heap[k] : k \in 1 .. Len(heap)}
  \cup UNION {{bs[b].events[k] : k \in 1 .. Len(bs[b].events)} : b \in DOMAIN bs}
  \cup (IF c = 0 THEN {} ELSE {c})

\* the event table without the objects nothing refers to any more
Collect(evs, bs, heap, c) ==
  [id \in Referenced(bs, heap, c) \cap DOMAIN evs |-> evs[id]]

\* the loop condition and the pop of one iteration
Running == pc = "loop" /\ ~is_empty(event_heap) /\ ~should_end

Popped == get_next_event(events, event_heap)

Pops(r, kind) == Running /\ r.event # None /\ events[r.event].kind = kind

\* the bookkeeping common to all handlers: the pop, the clock, the counter
Taken(r) ==
  /\ current_time' = events[r.event].time
  /\ event_count' = event_count + 1
  /\ cur' = r.event

Abort(exception) == pc' = "aborted" /\ error' = exception

\* Event.process(BallBallCollision), up to the invalidation
ProcessBallBallCollision ==
  \E r \in {Popped} :
  /\ Pops(r, "BallBallCollision")
  /\ LET e == events[r.event]
         b1 == e.ball1
         b2 == e.ball2
         u1 == update_to_time(balls[b1], e.time, params.gravity)
         u2 == update_to_time(balls[b2], e.time, params.gravity)
         c == perform_ball_ball_collision(u1, u2, params.ball_restitution)
         w == invalidate_all_events(
                invalidate_all_events(
                  World(events, next_id, [balls EXCEPT ![b1] = c[1], ![b2] = c[2]]), b1), b2)
     IN /\ Taken(r)
        /\ event_heap' = r.heap
        /\ IF PastTime(balls[b1], e.time)
           THEN /\ Abort("ValueError")
                /\ balls' = balls
                /\ events' = Collect(events, balls, r.heap, r.event)
           ELSE IF PastTime(balls[b2], e.time)
           THEN /\ Abort("ValueError")
                /\ balls' = [balls EXCEPT ![b1] = u1]
                /\ events' = Collect(events, balls, r.heap, r.event)
           ELSE /\ ball_ball_exact(u1, u2, params.ball_restitution)
                /\ balls' = w.balls
                /\ events' = Collect(w.events, w.balls, r.heap, r.event)
                /\ pc' = "generate"
                /\ UNCHANGED error
  /\ UNCHANGED << twin, params, grid, next_id, should_end, frames >>

\* Event.process(BallWallCollision), up to the invalidation
ProcessBallWallCollision ==
  \E r \in {Popped} :
  /\ Pops(r, "BallWallCollision")
  /\ LET e == events[r.event]
         b == e.ball1
         u == update_to_time(balls[b], e.time, params.gravity)
         c == perform_ball_wall_collision(u, walls[e.wall + 1], params.wall_restitution)
         w == invalidate_all_events(World(events, next_id, [balls EXCEPT ![b] = c]), b)
     IN /\ Taken(r)
        /\ event_heap' = r.heap
        /\ IF PastTime(balls[b], e.time)
           THEN /\ Abort("ValueError")
                /\ balls' = balls
                /\ events' = Collect(events, balls, r.heap, r.event)
           ELSE /\ balls' = w.balls
                /\ events' = Collect(w.events, w.balls, r.heap, r.event)
                /\ pc' = "generate"
                /\ UNCHANGED error
  /\ UNCHANGED << twin, params, grid, next_id, should_end, frames >>

\* the rest of both collision handlers: generate_events_for_ball for each
\* participant, then the pushes
GenerateNewEvents ==
  /\ pc = "generate"
  /\ LET e == events[cur]
         w1 == generate_events_for_ball(World(events, next_id, balls), e.ball1, walls, grid,
                                        e.time, params.gravity)
         Pushed(w) == IF w.status = "raises" THEN event_heap
                      ELSE add_events(w.events, event_heap, w.new)
     IN \E w \in {IF e.kind = "BallBallCollision"
                  THEN generate_events_for_ball(w1, e.ball2, walls, grid, e.time, params.gravity)
                  ELSE w1} :
        \E heap \in {Pushed(w)} :
        /\ w.status # "inexact"
        /\ balls' = w.balls
        /\ next_id' = w.next_id
        /\ event_heap' = heap
        /\ events' = Collect(w.events, w.balls, heap, cur)
        /\ IF w.status = "raises" THEN Abort("ValueError")
           ELSE pc' = "loop" /\ UNCHANGED error
  /\ UNCHANGED << twin, params, grid, current_time, should_end, event_count, frames, cur >>

\* Event.process(BallGridTransit)
ProcessBallGridTransit ==
  \E r \in {Popped} :
  /\ Pops(r, "BallGridTransit")
  /\ LET e == events[r.event]
         b == e.ball1
         old_cell == balls[b].cell
         moved == [balls EXCEPT ![b].cell = e.new_cell]
         removable == /\ CellAddressable(grid, old_cell)
                      /\ ListHas(grid.cells[CellSlot(grid, old_cell)], b)
         g == move_ball(grid, b, old_cell, e.new_cell)
         w1 == generate_ball_ball_events_for_new_cell(World(events, next_id, moved), b,
                                                      old_cell, g, e.time, params.gravity)
     IN \E w \in {IF removable /\ CellAddressable(grid, e.new_cell)
                  THEN generate_ball_grid_event(w1, b, e.time, params.gravity)
                  ELSE World(events, next_id, moved)} :
        \E heap \in {IF w.status = "ok" THEN add_events(w.events, r.heap, w.new) ELSE r.heap} :
        /\ Taken(r)
        /\ IF ~removable
           THEN /\ Abort(IF CellAddressable(grid, old_cell) THEN "ValueError" ELSE "IndexError")
                /\ balls' = moved
                /\ event_heap' = r.heap
                /\ events' = Collect(events, moved, r.heap, r.event)
                /\ UNCHANGED << grid, next_id >>
           ELSE IF ~CellAddressable(grid, e.new_cell)
           THEN /\ Abort("IndexError")
                /\ balls' = moved
                /\ grid' = remove_ball(grid, b, old_cell)
                /\ event_heap' = r.heap
                /\ events' = Collect(events, moved, r.heap, r.event)
                /\ UNCHANGED next_id
           ELSE /\ w.status # "inexact"
                /\ balls' = w.balls
                /\ grid' = g
                /\ next_id' = w.next_id
                /\ IF w.status = "raises"
                   THEN /\ Abort("ValueError")
                        /\ event_heap' = r.heap
                        /\ events' = Collect(w.events, w.balls, r.heap, r.event)
                   ELSE /\ event_heap' = heap
                        /\ events' = Collect(w.events, w.balls, heap, r.event)
                        /\ UNCHANGED << pc, error >>
  /\ UNCHANGED << twin, params, should_end, frames >>

\* the overlap check of ExportEvent.process
Overlap(positions) ==
  \E i, j \in DOMAIN balls :
    /\ i < j
    /\ LET distance_vec == [a \in Axes |-> positions[j][a] - positions[i][a]]
           min_distance == balls[i].radius + balls[j].radius
       IN Dot(distance_vec, distance_vec) < min_distance * min_distance

\* mutant of ProcessExportEvent: the balls are advanced to the export time
\* (update_to_time) instead of being peeked at
ProcessExportEvent_advancing ==
  \E r \in {Popped} :
  /\ Pops(r, "ExportEvent")
  /\ LET e == events[r.event]
         advanced == [i \in DOMAIN balls |-> update_to_time(balls[i], e.time, params.gravity)]
         current_positions == [i \in DOMAIN balls |-> advanced[i].position]
         current_velocities == [i \in DOMAIN balls |-> advanced[i].velocity]
     IN /\ Taken(r)
        /\ event_heap' = r.heap
        /\ events' = Collect(events, balls, r.heap, r.event)
        /\ IF \E i \in DOMAIN balls : PastTime(balls[i], e.time)
           THEN Abort("ValueError") /\ UNCHANGED << balls, frames >>
           ELSE IF Overlap(current_positions)
           THEN Abort("RuntimeError") /\ balls' = advanced /\ UNCHANGED frames
           ELSE /\ frames' = Append(frames, [time |-> e.time, positions |-> current_positions,
                                             velocities |-> current_velocities])
                /\ balls' = advanced
                /\ UNCHANGED << pc, error >>
  /\ UNCHANGED << twin, params, grid, next_id, should_end >>

\* Event.process(ExportEvent)
ProcessExportEvent ==
  \E r \in {Popped} :
  /\ Pops(r, "ExportEvent")
  /\ LET e == events[r.event]
         current_positions ==
           [i \in DOMAIN balls |-> get_position_and_velocity_at_time(balls[i], e.time, params.gravity).pos]
         current_velocities ==
           [i \in DOMAIN balls |-> get_position_and_velocity_at_time(balls[i], e.time, params.gravity).vel]
     IN /\ Taken(r)
        /\ event_heap' = r.heap
        /\ events' = Collect(events, balls, r.heap, r.event)
        /\ IF \E i \in DOMAIN balls : PastTime(balls[i], e.time)
           THEN Abort("ValueError") /\ UNCHANGED frames
           ELSE IF Overlap(current_positions)
           THEN Abort("RuntimeError") /\ UNCHANGED frames
           ELSE /\ frames' = Append(frames, [time |-> e.time, positions |-> current_positions,
                                             velocities |-> current_velocities])
                /\ UNCHANGED << pc, error >>
  /\ UNCHANGED << twin, params, balls, grid, next_id, should_end >>

\* Event.process(EndEvent)
ProcessEndEvent ==
  \E r \in {Popped} :
  /\ Pops(r, "EndEvent")
  /\ Taken(r)
  /\ event_heap' = r.heap
  /\ events' = Collect(events, balls, r.heap, r.event)
  /\ should_end' = TRUE
  /\ UNCHANGED << twin, params, balls, grid, next_id, frames, pc, error >>

\* mutant of LoopExit: without "if event is None: break" the loop goes on to
\* event.time with event = None
LoopExit_unguarded ==
  \E r \in {Popped} :
  /\ pc = "loop"
  /\ IF Running
     THEN /\ r.event = None
          /\ event_heap' = r.heap
          /\ events' = Collect(events, balls, r.heap, cur)
          /\ Abort("AttributeError")
     ELSE pc' = "done" /\ UNCHANGED << event_heap, events, error >>
  /\ UNCHANGED << twin, params, balls, grid, next_id, current_time, should_end,
                  event_count, frames, cur >>

\* the loop ends: its condition is false, or get_next_event returned None
LoopExit ==
  \E r \in {Popped} :
  /\ pc = "loop"
  /\ IF Running
     THEN /\ r.event = None
          /\ event_heap' = r.heap
          /\ events' = Collect(events, balls, r.heap, cur)
     ELSE UNCHANGED << event_heap, events >>
  /\ pc' = "done"
  /\ UNCHANGED << twin, params, balls, grid, next_id, current_time, should_end,
                  event_count, frames, cur, error >>

Next ==
  \/ ProcessBallBallCollision
  \/ ProcessBallWallCollision
  \/ GenerateNewEvents
  \/ ProcessBallGridTransit
  \/ ProcessExportEvent
  \/ ProcessEndEvent
  \/ LoopExit

Spec == Init /\ [][Next]_vars

(***************************************************************************)
(* event_heap.py on its own: any sequence of add_event calls,              *)
(* invalidations and get_next_event calls on one EventHeap.  The variables *)
(* events, next_id, event_heap and cur are the heap's; the others rest.    *)
(* twin is the EventHeap of a second run that receives the same calls: its *)
(* event objects are the same events under other identities (Mirror).      *)
(***************************************************************************)
MaxHeapEvents == 4
MaxHeapTime == 2

\* the identity, in the second run, of the event that is id in the first
Mirror(id) == IF id <= 0 THEN id ELSE MaxHeapEvents + 1 - id

HeapInit ==
  /\ events = << >>
  /\ next_id = 1
  /\ event_heap = << >>
  /\ cur = 0
  /\ pc = "heap"
  /\ params = << >>
  /\ balls = << >>
  /\ grid = << >>
  /\ current_time = 0
  /\ should_end = FALSE
  /\ event_count = 0
  /\ frames = << >>
  /\ error = "none"
  /\ twin = [events |-> << >>, heap |-> << >>, cur |-> 0]

HeapRest == UNCHANGED << params, balls, grid, current_time, should_end, event_count,
                         frames, pc, error >>

\* EventHeap.add_event of a new event
HeapAdd ==
  /\ pc = "heap"
  /\ next_id <= MaxHeapEvents
  /\ \E t \in 0 .. MaxHeapTime :
       LET evs == (next_id :> ExportEvent(t)) @@ events
           twin_evs == (Mirror(next_id) :> ExportEvent(t)) @@ twin.events
       IN /\ events' = evs
          /\ event_heap' = add_event(evs, event_heap, next_id)
          /\ twin' = [twin EXCEPT !.events = twin_evs,
                                  !.heap = add_event(twin_evs, twin.heap, Mirror(next_id))]
  /\ next_id' = next_id + 1
  /\ UNCHANGED cur
  /\ HeapRest

\* event.valid = False on an event that somebody still holds
HeapInvalidate ==
  /\ pc = "heap"
  /\ \E id \in DOMAIN events :
       /\ events[id].valid
       /\ events' = [events EXCEPT ![id].valid = FALSE]
       /\ twin' = IF Mirror(id) \in DOMAIN twin.events
                  THEN [twin EXCEPT !.events[Mirror(id)].valid = FALSE]
                  ELSE twin
  /\ UNCHANGED << next_id, event_heap, cur >>
  /\ HeapRest

\* EventHeap.get_next_event; cur is what it returned
HeapPop ==
  /\ pc = "heap"
  /\ LET r == get_next_event(events, event_heap)
         t == get_next_event(twin.events, twin.heap)
     IN /\ cur' = r.event
        /\ event_heap' = r.heap
        /\ events' = [id \in {r.heap[k] : k \in 1 .. Len(r.heap)}
                               \cup (IF r.event = None THEN {} ELSE {r.event})
                        |-> events[id]]
        /\ twin' = [events |-> [id \in {t.heap[k] : k \in 1 .. Len(t.heap)}
                                         \cup (IF t.event = None THEN {} ELSE {t.event})
                                  |-> twin.events[id]],
                    heap |-> t.heap, cur |-> t.event]
  /\ UNCHANGED next_id
  /\ HeapRest

HeapNext ==
  \/ HeapAdd
  \/ HeapInvalidate
  \/ HeapPop

HeapSpec == HeapInit /\ [][HeapNext]_vars

(***************************************************************************)
(* simulation.py from the call of run_simulation to the start of the main  *)
(* loop, for any parameter dictionary: validate_simulation_parameters, the *)
(* cell count check of initialize_simulation, the placement of the balls,  *)
(* the initial events.  given is the set of keys the dictionary has;       *)
(* domain_size is a tuple (0-based) of any length.  Dictionaries with      *)
(* ndim = 3 are left out: the model places and moves balls in 2D.          *)
(***************************************************************************)
MaxStartBalls == 3
MaxStartCells == 3

RequiredParams == {"ndim", "num_balls", "ball_radius", "domain_size", "simulation_time"}

StartDomains ==
  {[i \in 0 .. 0 |-> 2 * CellSize], [i \in 0 .. 2 |-> 2 * CellSize]}
  \cup { [i \in 0 .. 1 |-> IF i = 0 THEN x ELSE y] :
           x \in {0, CellSize \div 2, MaxStartCells * CellSize}
                 \cup {k * CellSize + h : k \in 2 .. (MaxStartCells - 1), h \in {0, CellSize \div 2}},
           y \in {CellSize, CellSize + CellSize \div 2} }

StartParams ==
  [given : {RequiredParams} \cup {RequiredParams \ {k} : k \in RequiredParams},
   ndim : {1, 2, 4}, num_balls : 0 .. MaxStartBalls,
   ball_radius : {0, 31, MaxRadius, MaxRadius + 1, CellSize},
   domain_size : StartDomains, simulation_time : {0, MaxSimTime},
   gravity : BOOLEAN, ball_restitution : {1}, wall_restitution : {1}, output_rate : Rates]

\* mutant of validate_simulation_parameters: the radius has no upper bound
validate_simulation_parameters_unbounded(p) ==
  /\ RequiredParams \subseteq p.given
  /\ p.ndim \in {2, 3}
  /\ ~(p.num_balls <= 0)
  /\ ~(p.ball_radius <= 0)
  /\ ~(Cardinality(DOMAIN p.domain_size) # p.ndim)
  /\ ~(\E i \in DOMAIN p.domain_size : p.domain_size[i] <= 0)
  /\ ~(p.simulation_time <= 0)

\* validate_simulation_parameters: TRUE when it returns, FALSE when it raises
\* ValueError
validate_simulation_parameters(p) ==
  /\ RequiredParams \subseteq p.given
  /\ p.ndim \in {2, 3}
  /\ ~(p.num_balls <= 0)
  /\ ~(p.ball_radius <= 0)
  /\ ~(p.ball_radius >= CellSize)
  /\ ~(p.ball_radius > MaxRadius)
  /\ ~(Cardinality(DOMAIN p.domain_size) # p.ndim)
  /\ ~(\E i \in DOMAIN p.domain_size : p.domain_size[i] <= 0)
  /\ ~(p.simulation_time <= 0)

\* initialize_simulation: num_balls > total_cells, the product of int(size)
TooManyBalls(p) == p.num_balls > IntCells(p.domain_size[0]) * IntCells(p.domain_size[1])

StartInit ==
  /\ params \in StartParams
  /\ pc = "start"
  /\ balls = << >>
  /\ grid = << >>
  /\ events = << >>
  /\ next_id = 1
  /\ event_heap = << >>
  /\ current_time = 0
  /\ should_end = FALSE
  /\ event_count = 0
  /\ frames = << >>
  /\ cur = 0
  /\ error = "none"
  /\ twin = << >>

\* validate_simulation_parameters raises
ValidationError ==
  /\ pc = "start"
  /\ ~validate_simulation_parameters(params)
  /\ pc' = "refused"
  /\ error' = "ValueError"
  /\ UNCHANGED << twin, params, balls, grid, events, next_id, event_heap, current_time,
                  should_end, event_count, frames, cur >>

\* initialize_simulation raises: too many balls for the cells
PlacementError ==
  /\ pc = "start"
  /\ validate_simulation_parameters(params)
  /\ TooManyBalls(params)
  /\ pc' = "refused"
  /\ error' = "ValueError"
  /\ UNCHANGED << twin, params, balls, grid, events, next_id, event_heap, current_time,
                  should_end, event_count, frames, cur >>

\* initialize_simulation and run_simulation up to the main loop
Start ==
  /\ pc = "start"
  /\ validate_simulation_parameters(params)
  /\ ~TooManyBalls(params)
  /\ \E vel \in InitialVelocities(params.num_balls) :
       \E s \in {Setup(params, vel)} :
          /\ s.status = "ok"
          /\ balls' = s.balls
          /\ grid' = s.grid
          /\ events' = s.events
          /\ next_id' = s.next_id
          /\ event_heap' = s.heap
  /\ pc' = "loop"
  /\ UNCHANGED << twin, params, current_time, should_end, event_count, frames, cur, error >>

StartNext ==
  \/ ValidationError
  \/ PlacementError
  \/ Start

StartSpec == StartInit /\ [][StartNext]_vars

(***************************************************************************)
(* events.py, ExportEvent.process on its own, as the unit test calls it:   *)
(* two balls anywhere, one export event in the heap.  The overlap check    *)
(* compares lengths only, so the unit of length is free: here it is half   *)
(* the tolerance of the specification, which makes distances that are      *)
(* short of contact by less than the tolerance states of the model.        *)
(***************************************************************************)
MaxGap == 7

ExportInit ==
  /\ params \in [gravity : BOOLEAN]
  /\ \E x, y \in 0 .. MaxGap, r0, r1 \in {2, 3}, vx \in {-1, 0, 1} :
       balls = [i \in 0 .. 1 |->
                  IF i = 0 THEN Ball([a \in Axes |-> 0], [a \in Axes |-> 0], r0, 0, NoCell)
                  ELSE Ball([a \in Axes |-> IF a = 0 THEN x ELSE y],
                            [a \in Axes |-> IF a = 0 THEN vx ELSE 0], r1, 1, NoCell)]
  /\ \E t \in {0, 1} : events = (1 :> ExportEvent(t))
  /\ event_heap = << 1 >>
  /\ next_id = 2
  /\ grid = << >>
  /\ current_time = 0
  /\ should_end = FALSE
  /\ event_count = 0
  /\ frames = << >>
  /\ pc = "loop"
  /\ cur = 0
  /\ error = "none"
  /\ twin = << >>

ExportNext == ProcessExportEvent

ExportSpec == ExportInit /\ [][ExportNext]_vars

(***************************************************************************)
(* ball.py on its own: one Ball that is asked for its position at, or is   *)
(* advanced to, any time, earlier than its local time or not.  balls[0] is *)
(* the ball, current_time the time asked for, frames the position returned *)
(* by the last get_position_at_time, error what the last call raised.      *)
(***************************************************************************)
MaxBallTime == 3

BallInit ==
  /\ params \in [gravity : BOOLEAN]
  /\ \E velocity \in Velocities :
       balls = [i \in 0 .. 0 |-> Ball([a \in Axes |-> 0], velocity, 31, 0, NoCell)]
  /\ pc = "ball"
  /\ current_time = 0
  /\ frames = << >>
  /\ error = "none"
  /\ cur = 0
  /\ events = << >>
  /\ event_heap = << >>
  /\ next_id = 1
  /\ grid = << >>
  /\ should_end = FALSE
  /\ event_count = 0
  /\ twin = << >>

\* Ball.update_to_time(t)
BallAdvance ==
  /\ pc = "ball"
  /\ \E t \in 0 .. MaxBallTime :
       /\ current_time' = t
       /\ IF PastTime(balls[0], t)
          THEN error' = "ValueError" /\ UNCHANGED balls
          ELSE /\ error' = "none"
               /\ balls' = [balls EXCEPT ![0] = update_to_time(@, t, params.gravity)]
  /\ UNCHANGED << twin, params, grid, events, next_id, event_heap, should_end, event_count,
                  frames, pc, cur >>

\* Ball.get_position_at_time(t)
BallPeek ==
  /\ pc = "ball"
  /\ \E t \in 0 .. MaxBallTime :
       /\ current_time' = t
       /\ IF PastTime(balls[0], t)
          THEN error' = "ValueError" /\ UNCHANGED frames
          ELSE /\ error' = "none"
               /\ frames' = << get_position_at_time(balls[0], t, params.gravity) >>
  /\ UNCHANGED << twin, params, balls, grid, events, next_id, event_heap, should_end,
                  event_count, pc, cur >>

BallNext ==
  \/ BallAdvance
  \/ BallPeek

BallSpec == BallInit /\ [][BallNext]_vars

(***************************************************************************)
(* The back-references on their own: two balls, events that are            *)
(* constructed for them in any order (Event.__init__ registers the event   *)
(* with every ball it mentions) and pushed, and get_next_event calls; a    *)
(* collision that is returned is processed as far as invalidation goes:    *)
(* its participants call invalidate_all_events.  twin is the reference     *)
(* scheme of the design notes, kept beside the code's: gen[b] counts the   *)
(* collisions of ball b that were processed, rec[id] is gen as it was when *)
(* event id was constructed.                                               *)
(***************************************************************************)
MaxBackRefEvents == 3

BackRefInit ==
  /\ balls = [i \in 0 .. 1 |-> Ball(NoCell, NoCell, 31, i, NoCell)]
  /\ events = << >>
  /\ next_id = 1
  /\ event_heap = << >>
  /\ cur = 0
  /\ pc = "backref"
  /\ params = << >>
  /\ grid = << >>
  /\ current_time = 0
  /\ should_end = FALSE
  /\ event_count = 0
  /\ frames = << >>
  /\ error = "none"
  /\ twin = [gen |-> [b \in 0 .. 1 |-> 0], rec |-> << >>]

\* a ball event is constructed and pushed
BackRefCreate ==
  /\ pc = "backref"
  /\ next_id <= MaxBackRefEvents
  /\ \E t \in 0 .. 1, b \in 0 .. 1 :
       \E e \in {BallBallCollision(t, b, 1 - b), BallWallCollision(t, b, 0),
                 BallGridTransit(t, b, NoCell)} :
         LET w == Construct(World(events, next_id, balls), e)
         IN /\ balls' = w.balls
            /\ events' = w.events
            /\ next_id' = w.next_id
            /\ event_heap' = add_events(w.events, event_heap, w.new)
            /\ twin' = [twin EXCEPT !.rec = (next_id :> twin.gen) @@ @]
  /\ UNCHANGED << cur, params, grid, current_time, should_end, event_count, frames, pc, error >>

\* get_next_event, and the invalidations of the handler of what it returned
BackRefProcess ==
  /\ pc = "backref"
  /\ LET r == get_next_event(events, event_heap)
         e == events[r.event]
         hit == IF r.event = None \/ e.kind = "BallGridTransit" THEN {}
                ELSE {e.ball1, e.ball2} \ {None}
         w0 == World(events, next_id, balls)
         w1 == IF r.event # None /\ e.ball1 \in hit THEN invalidate_all_events(w0, e.ball1) ELSE w0
         w2 == IF r.event # None /\ e.ball2 \in hit THEN invalidate_all_events(w1, e.ball2) ELSE w1
     IN /\ cur' = r.event
        /\ event_heap' = r.heap
        /\ events' = Collect(w2.events, w2.balls, r.heap, r.event)
        /\ balls' = w2.balls
        /\ twin' = [gen |-> [b \in 0 .. 1 |-> IF b \in hit THEN twin.gen[b] + 1 ELSE twin.gen[b]],
                    rec |-> [id \in DOMAIN events' |-> twin.rec[id]]]
  /\ UNCHANGED << next_id, params, grid, current_time, should_end, event_count, frames, pc,
                  error >>

BackRefNext ==
  \/ BackRefCreate
  \/ BackRefProcess

BackRefSpec == BackRefInit /\ [][BackRefNext]_vars

(***************************************************************************)
(* simulation.py, the main loop on its own, entered with any EventHeap:    *)
(* valid export events, an end event or none, and ball events that have    *)
(* been invalidated, pushed in any order.                                  *)
(***************************************************************************)
MaxDrainEvents == 3

DrainEvents ==
  {ExportEvent(t) : t \in {0, 1}} \cup {EndEvent(1)}
  \cup {[BallWallCollision(t, 0, 0) EXCEPT !.valid = FALSE] : t \in {0, 1}}

DrainInit ==
  /\ params \in [gravity : {FALSE}]
  /\ \E n \in 0 .. MaxDrainEvents :
       /\ events \in [1 .. n -> DrainEvents]
       /\ event_heap = add_events(events, << >>, [k \in 1 .. n |-> k])
       /\ next_id = n + 1
  /\ balls = << >>
  /\ grid = << >>
  /\ current_time = 0
  /\ should_end = FALSE
  /\ event_count = 0
  /\ frames = << >>
  /\ pc = "loop"
  /\ cur = 0
  /\ error = "none"
  /\ twin = << >>

DrainNext ==
  \/ ProcessExportEvent
  \/ ProcessEndEvent
  \/ LoopExit

DrainSpec == DrainInit /\ [][DrainNext]_vars

(***************************************************************************)
(* run_simulation started from hand-placed balls, as in the end-to-end     *)
(* scenario 1 of the design: two balls of radius 0.4 in the domain (6,2),  *)
(* no gravity, flying towards each other along x, each registered in the   *)
(* cell floor(position).  Without gravity the unit of time is free: here a *)
(* tick is 0.01 time units, so that the speed 1 is one length unit per     *)
(* tick and every event time of these runs is a whole number of ticks.     *)
(***************************************************************************)
MaxHeadOnTime == 450

HeadOnParams ==
  [num_balls : {2}, ball_radius : {40}, domain_size : {[a \in Axes |-> IF a = 0 THEN 600 ELSE 200]},
   simulation_time : {200, MaxHeadOnTime}, gravity : {FALSE},
   ball_restitution : {1}, wall_restitution : {1}, output_rate : {100},
   positions : { [i \in 0 .. 1 |-> [a \in Axes |-> IF a = 1 THEN y ELSE IF i = 0 THEN x0 ELSE x1]] :
                   x0 \in {100, 150}, x1 \in {500, 550}, y \in {100, 150} },
   velocities : { [i \in 0 .. 1 |-> [a \in Axes |-> IF a = 1 THEN 0 ELSE IF i = 0 THEN 1 ELSE -1]] }]

\* run_simulation from the hand-placed balls of one of the parameter records P
PlacedInit(P) ==
  /\ params \in P
  /\ LET cell(i) == [a \in Axes |-> params.positions[i][a] \div CellSize]
         bs == [i \in 0 .. 1 |-> Ball(params.positions[i], params.velocities[i],
                                       params.ball_radius, i, cell(i))]
         g == add_ball(add_ball(Grid([a \in Axes |-> CeilCells(params.domain_size[a])]),
                                0, cell(0)), 1, cell(1))
     IN \E st \in {InitialEvents(params, g, [w |-> World(<< >>, 1, bs), heap |-> << >>], 0)} :
        \E adm \in {AdminEvents(params, [events |-> st.w.events, next_id |-> st.w.next_id,
                                          heap |-> st.heap])} :
          /\ st.w.status = "ok"
          /\ balls = st.w.balls
          /\ grid = g
          /\ events = adm.events
          /\ next_id = adm.next_id
          /\ event_heap = adm.heap
  /\ current_time = 0
  /\ should_end = FALSE
  /\ event_count = 0
  /\ frames = << >>
  /\ pc = "loop"
  /\ cur = 0
  /\ error = "none"
  /\ twin = << >>

HeadOnInit == PlacedInit(HeadOnParams)

HeadOnSpec == HeadOnInit /\ [][Next]_vars

(***************************************************************************)
(* The same start with one ball chasing the other along x: the balls start *)
(* in neighbouring cells, the slower ball in front leaves for the next     *)
(* cell, the faster one follows it there, and the pair is predicted again  *)
(* on that transit while its first prediction is still in the queue.  The  *)
(* radius is 0.41, a tick 0.01 time units; the starts are such that every  *)
(* event time of these runs is a whole number of ticks.                    *)
(***************************************************************************)
MaxChaseTime == 150

ChaseParams ==
  [num_balls : {2}, ball_radius : {41}, domain_size : {[a \in Axes |-> IF a = 0 THEN 400 ELSE 200]},
   simulation_time : {80, MaxChaseTime}, gravity : {FALSE},
   ball_restitution : {1}, wall_restitution : {1}, output_rate : {50},
   positions : { [i \in 0 .. 1 |-> [a \in Axes |-> IF a = 1 THEN 100 ELSE x[i + 1]]] :
                   x \in {<< 110, 257 >>, << 110, 260 >>, << 110, 263 >>, << 120, 262 >>,
                           << 120, 265 >>} },
   velocities : { [i \in 0 .. 1 |-> [a \in Axes |-> IF a = 1 THEN 0 ELSE IF i = 0 THEN 2 ELSE 1]] }]

ChaseSpec == PlacedInit(ChaseParams) /\ [][Next]_vars

(***************************************************************************)
(* Properties.                                                             *)
(***************************************************************************)
\* the ids in the heap array
Queued == {event_heap[k] : k \in 1 .. Len(event_heap)}

\* a handler has run to its end (no handler is in progress, none raised)
AfterEvent == pc \in {"loop", "done"} /\ event_count > 0

\* C1: in a run started from an accepted, non-overlapping initial state no
\* two balls overlap at an export event: the overlap check of
\* ExportEvent.process never aborts the run.
C1_NoOverlapAbort == error # "RuntimeError"

\* C2: the times of the events processed by the main loop are nondecreasing:
\* the simulation clock never moves backwards.
C2_MonotonicTime == [][current_time' >= current_time]_vars

C2_Witness == event_count >= 3 /\ current_time > 0 /\ pc = "loop"

\* C3: right after a collision handler has changed its participants'
\* velocities and invalidated their events, and before it generates their new
\* events, no event in the queue that mentions a participant is valid.
C3_BackReferences ==
  pc = "generate" =>
    \A id \in Queued :
      \A b \in {events[cur].ball1, events[cur].ball2} \ {None} :
        Mentions(events[id], b) => ~events[id].valid

C3_Witness ==
  /\ pc = "generate"
  /\ events[cur].kind = "BallBallCollision"
  /\ \E id \in Queued : Mentions(events[id], events[cur].ball1)
  /\ \E id \in Queued : Mentions(events[id], events[cur].ball2)

\* C4: get_next_event never returns an event whose valid flag is false, and
\* it returns None only when no valid event is left in the heap; this in
\* every state that add_event calls, invalidations and pops lead to.
C4_QueueValidity ==
  LET r == get_next_event(events, event_heap)
  IN /\ r.event # None => r.event \in Queued /\ events[r.event].valid
     /\ r.event = None => \A id \in Queued : ~events[id].valid

C4_Witness ==
  /\ pc = "heap"
  /\ cur \in DOMAIN events
  /\ Len(event_heap) >= 2
  /\ ~events[event_heap[1]].valid
  /\ get_next_event(events, event_heap).event # None

\* the number of times a list holds x
CountIn(list, x) == Cardinality({k \in 1 .. Len(list) : list[k] = x})

\* C5: after every processed event every ball index is in exactly one cell
\* list of the grid, exactly once, and that list is the one of the cell stored
\* on the ball; so the memberships are as many as the balls.
C5_GridMembership ==
  AfterEvent =>
    \A b \in DOMAIN balls :
      /\ is_valid_cell(grid, balls[b].cell)
      /\ \A key \in DOMAIN grid.cells :
           CountIn(grid.cells[key], b) = (IF key = CellKey(balls[b].cell) THEN 1 ELSE 0)

\* the position of a ball at the simulation clock
PositionNow(b) == get_position_at_time(balls[b], current_time, params.gravity)

Clamp(x, lo, hi) == IF x < lo THEN lo ELSE IF x > hi THEN hi ELSE x

\* C6: after every processed event, for every ball and axis, the stored cell
\* coordinate is floor(position) clamped to [0, N_cells - 1], the position
\* taken at the current simulation time.
C6_CellIsFloor ==
  AfterEvent =>
    \A b \in DOMAIN balls : \A a \in Axes :
      balls[b].cell[a] = Clamp(PositionNow(b)[a] \div CellSize, 0, grid.num_cells[a] - 1)

\* C7: processing a grid transit changes only the ball's stored cell and the
\* grid lists and enqueues events: position, velocity and local time of every
\* ball stay, the cell of every other ball stays, and no event that was in
\* the table has its valid flag changed.
C7_TransitFrame ==
  [][ProcessBallGridTransit =>
       /\ \A b \in DOMAIN balls :
            /\ balls'[b].position = balls[b].position
            /\ balls'[b].velocity = balls[b].velocity
            /\ balls'[b].time = balls[b].time
            /\ b # events'[cur'].ball1 => balls'[b].cell = balls[b].cell
       /\ \A id \in DOMAIN events \cap DOMAIN events' : events'[id].valid = events[id].valid
       /\ \A id \in Queued : events[id].valid => id = cur' \/ id \in {event_heap'[k] : k \in 1 .. Len(event_heap')}
     ]_vars

C7_Witness ==
  /\ pc = "loop"
  /\ cur \in DOMAIN events
  /\ events[cur].kind = "BallGridTransit"
  /\ balls[events[cur].ball1].cell = events[cur].new_cell
  /\ balls[events[cur].ball1].time < current_time
  /\ \E id \in Queued : id > cur /\ Mentions(events[id], events[cur].ball1)
  /\ \E id \in Queued : id < cur /\ events[id].valid /\ Mentions(events[id], events[cur].ball1)

\* C8: after a ball-ball collision at time t both participants have local
\* time t, after a ball-wall collision at time t the ball has local time t,
\* and position, velocity and local time of every other ball are unchanged
\* by the whole handler.
C8_CollisionTimes ==
  [][/\ (ProcessBallBallCollision \/ ProcessBallWallCollision) /\ pc' = "generate" =>
          LET e == events'[cur']
          IN /\ balls'[e.ball1].time = e.time
             /\ e.kind = "BallBallCollision" => balls'[e.ball2].time = e.time
             /\ \A b \in DOMAIN balls \ {e.ball1, e.ball2} :
                  /\ balls'[b].position = balls[b].position
                  /\ balls'[b].velocity = balls[b].velocity
                  /\ balls'[b].time = balls[b].time
     /\ GenerateNewEvents =>
          \A b \in DOMAIN balls :
            /\ balls'[b].position = balls[b].position
            /\ balls'[b].velocity = balls[b].velocity
            /\ balls'[b].time = balls[b].time
    ]_vars

C8_Witness ==
  /\ pc = "loop"
  /\ cur \in DOMAIN events
  /\ events[cur].kind = "BallWallCollision"
  /\ current_time > 0
  /\ balls[events[cur].ball1].time = current_time
  /\ \E b \in DOMAIN balls : b # events[cur].ball1 /\ balls[b].time < current_time

\* C9: every run with valid parameters ends through the end event: when the
\* run has stopped, the end event scheduled at simulation_time was the last
\* event processed and set should_end; and no event later than
\* simulation_time is ever processed.
C9_EndsThroughEndEvent ==
  /\ pc \in {"done", "aborted"} =>
       /\ pc = "done"
       /\ should_end
       /\ events[cur].kind = "EndEvent"
       /\ current_time = params.simulation_time
  /\ pc \in {"loop", "generate", "done", "aborted"} => current_time <= params.simulation_time

\* C10: for every k >= 0 with k * output_rate <= simulation_time an export
\* event at k * output_rate is enqueued, and each of them, the one at 0 and
\* the one at simulation_time included, is processed and its frame written
\* before the run stops.
C10_AllExportsWritten ==
  /\ event_count = 0 /\ pc = "loop" =>
       \A k \in 0 .. (params.simulation_time \div params.output_rate) :
         \E id \in Queued :
           events[id].kind = "ExportEvent" /\ events[id].time = k * params.output_rate
  /\ pc = "done" =>
       \A k \in 0 .. (params.simulation_time \div params.output_rate) :
         \E f \in 1 .. Len(frames) : frames[f].time = k * params.output_rate

C12_Containment ==
  \A f \in 1 .. Len(frames) : \A b \in DOMAIN balls : \A a \in Axes :
    /\ Inset + balls[b].radius <= frames[f].positions[b][a]
    /\ frames[f].positions[b][a] <= params.domain_size[a] - Inset - balls[b].radius

\* C13: get_next_event returns, among the valid events in the heap, one of
\* minimum time, whatever the order of the pushes; and a second pop with no
\* push in between returns an event that is not earlier than the first.
C13_MinTime ==
  LET r1 == get_next_event(events, event_heap)
      r2 == get_next_event(events, r1.heap)
  IN /\ r1.event # None =>
          \A id \in Queued : events[id].valid => events[r1.event].time <= events[id].time
     /\ r1.event # None /\ r2.event # None => events[r1.event].time <= events[r2.event].time

C13_Witness ==
  /\ pc = "heap"
  /\ cur \in DOMAIN events
  /\ events[cur].valid
  /\ \E id \in Queued : id < cur /\ events[id].valid /\ events[id].time > events[cur].time
  /\ \E id \in Queued : id > cur /\ events[id].valid /\ events[id].time > events[cur].time
  /\ get_next_event(events, event_heap).event # None

\* C14: size() counts every event pushed and not yet removed, the invalid
\* ones included: an invalidation changes neither size() nor is_empty() nor
\* what is queued, a push adds one, a get_next_event call removes the event it
\* returns and invalid events only, and after it has returned None the heap is
\* empty.
C14_LazyRemoval ==
  [][/\ HeapInvalidate =>
          /\ size(event_heap') = size(event_heap)
          /\ is_empty(event_heap') = is_empty(event_heap)
          /\ Queued' = Queued
     /\ HeapAdd =>
          /\ size(event_heap') = size(event_heap) + 1
          /\ Queued \subseteq Queued'
     /\ HeapPop =>
          /\ Queued' \subseteq Queued
          /\ \A id \in Queued \ Queued' : id = cur' \/ ~events[id].valid
          /\ size(event_heap') = size(event_heap) - Cardinality(Queued \ Queued')
          /\ cur' = None => is_empty(event_heap')
     /\ size(event_heap') = Cardinality(Queued')
    ]_vars

C14_Witness ==
  /\ pc = "heap"
  /\ cur # 0
  /\ size(event_heap) >= 2
  /\ ~is_empty(event_heap)
  /\ \A id \in Queued : ~events[id].valid

\* C15: processing an export event changes no ball (position, velocity, local
\* time, cell, event list), not the grid, no event, and nothing in the queue it
\* was popped from; the frame it writes holds, for every ball, p(t) and v(t)
\* at the export time t, computed from the ball's stored state.
C15_ExportFrame ==
  [][ProcessExportEvent =>
       /\ balls' = balls
       /\ grid' = grid
       /\ event_heap' = Popped.heap
       /\ \A id \in Queued' : events'[id] = events[id]
       /\ pc' = "loop" =>
            LET f == frames'[Len(frames')]
            IN /\ Len(frames') = Len(frames) + 1
               /\ f.time = events'[cur'].time
               /\ \A b \in DOMAIN balls : \A a \in Axes :
                    LET dt == f.time - balls[b].time
                        falls == params.gravity /\ a = 1
                    IN /\ f.positions[b][a]
                            = balls[b].position[a] + balls[b].velocity[a] * dt
                              - (IF falls THEN HalfG * dt * dt ELSE 0)
                       /\ f.velocities[b][a]
                            = balls[b].velocity[a] - (IF falls THEN 2 * HalfG * dt ELSE 0)
    ]_vars

C15_Witness ==
  /\ pc = "loop"
  /\ cur \in DOMAIN events
  /\ events[cur].kind = "ExportEvent"
  /\ current_time > 0
  /\ Len(frames) >= 2
  /\ frames[Len(frames)].time = current_time
  /\ \E b \in DOMAIN balls :
       /\ balls[b].time < current_time
       /\ frames[Len(frames)].positions[b] # balls[b].position
       /\ balls[b].events # << >>

\* C16: when the main loop starts, the queue holds at most one ball-ball
\* event per unordered pair of balls, and each of them has the lower index as
\* ball1 and a strictly higher index as ball2, a ball of the 3 x 3 cell
\* neighbourhood of ball1.
C16_InitialPairs ==
  pc = "loop" /\ event_count = 0 =>
    \A id \in Queued :
      events[id].kind = "BallBallCollision" =>
        /\ events[id].ball1 < events[id].ball2
        /\ \A a \in Axes :
             Abs(balls[events[id].ball1].cell[a] - balls[events[id].ball2].cell[a]) <= 1
        /\ \A other \in Queued \ {id} :
             events[other].kind = "BallBallCollision" =>
               {events[other].ball1, events[other].ball2}
                 # {events[id].ball1, events[id].ball2}

C16_Witness ==
  /\ pc = "loop"
  /\ event_count = 0
  /\ params.num_balls = 3
  /\ \E id \in Queued : events[id].kind = "BallBallCollision" /\ events[id].ball1 = 0
  /\ balls[2].cell[0] - balls[0].cell[0] > 1
  /\ balls[0].velocity[0] > 0

\* C17: an export aborts the run if and only if some pair of balls has a
\* centre distance below r_i + r_j - delta at the export time (a pair short of
\* r_i + r_j by less than delta does not abort); and an aborted export writes
\* no frame.  Lengths are in units of delta / 2.
C17_AbortIffOverlap ==
  cur # 0 /\ events[cur].kind = "ExportEvent" =>
    LET delta == 2
        p(i) == get_position_at_time(balls[i], current_time, params.gravity)
        d(i, j) == [a \in Axes |-> p(j)[a] - p(i)[a]]
        reach(i, j) == balls[i].radius + balls[j].radius - delta
        TooClose == \E i, j \in DOMAIN balls :
                      i < j /\ reach(i, j) > 0 /\ Dot(d(i, j), d(i, j)) < reach(i, j) * reach(i, j)
    IN /\ (error = "RuntimeError") <=> TooClose
       /\ error = "RuntimeError" => frames = << >>
       /\ error = "none" => Len(frames) = 1

\* C18: asking a ball for its position at, or advancing it to, a time earlier
\* than its local time raises an error and leaves the ball's position,
\* velocity and local time as they were.
C18_PastTimeRaises ==
  [][(BallAdvance \/ BallPeek) /\ current_time' < balls[0].time =>
       /\ error' = "ValueError"
       /\ balls'[0].position = balls[0].position
       /\ balls'[0].velocity = balls[0].velocity
       /\ balls'[0].time = balls[0].time
    ]_vars

C18_Witness ==
  /\ pc = "ball"
  /\ error = "ValueError"
  /\ current_time < balls[0].time
  /\ balls[0].position # [a \in Axes |-> 0]
  /\ frames # << >>

\* C19: when a required parameter is missing or invalid (ndim not 2 or 3,
\* num_balls <= 0, ball_radius <= 0 or > 0.5, domain_size of another length
\* than ndim or with a non-positive extent, simulation_time <= 0), the run
\* ends in an error with no ball created, no event enqueued and no output
\* written.
C19_InvalidRefused ==
  LET p == params
      Invalid == \/ \E k \in RequiredParams : k \notin p.given
                 \/ p.ndim # 2 /\ p.ndim # 3
                 \/ p.num_balls <= 0
                 \/ p.ball_radius <= 0
                 \/ p.ball_radius > CellSize \div 2
                 \/ Cardinality(DOMAIN p.domain_size) # p.ndim
                 \/ \E i \in DOMAIN p.domain_size : p.domain_size[i] <= 0
                 \/ p.simulation_time <= 0
  IN pc # "start" /\ Invalid =>
       /\ pc = "refused"
       /\ error = "ValueError"
       /\ balls = << >>
       /\ grid = << >>
       /\ events = << >>
       /\ event_heap = << >>
       /\ frames = << >>

C19_Witness ==
  /\ pc = "refused"
  /\ error = "ValueError"
  /\ balls = << >>
  /\ event_heap = << >>
  /\ params.given = RequiredParams
  /\ params.ndim = 2
  /\ params.num_balls = 2
  /\ params.ball_radius = MaxRadius + 1
  /\ params.domain_size = [i \in 0 .. 1 |-> IF i = 0 THEN MaxStartCells * CellSize ELSE CellSize]
  /\ params.simulation_time > 0

\* C20: with valid parameters, initialization is refused exactly when
\* num_balls exceeds the number of grid cells, the product over the axes of
\* ceil(domain_size[axis]); otherwise it succeeds and registers each ball in
\* a grid cell of its own.
C20_RefusedIffTooMany ==
  pc # "start" /\ validate_simulation_parameters(params) =>
    LET total_cells == CeilCells(params.domain_size[0]) * CeilCells(params.domain_size[1])
    IN /\ pc = "refused" <=> params.num_balls > total_cells
       /\ pc = "loop" =>
            /\ DOMAIN balls = 0 .. (params.num_balls - 1)
            /\ \A i \in DOMAIN balls :
                 /\ balls[i].cell \in DOMAIN grid.cells
                 /\ \E k \in DOMAIN grid.cells[balls[i].cell] : grid.cells[balls[i].cell][k] = i
            /\ \A i, j \in DOMAIN balls : i # j => balls[i].cell # balls[j].cell

\* C21: when the queue holds no valid event and the end event has not been
\* processed (the queue is empty, or holds invalidated events only), the main
\* loop exits normally: no error, nothing processed, nothing written.
C21_EmptyQueueCompletes ==
  [][pc = "loop" /\ ~should_end /\ (\A id \in Queued : ~events[id].valid) =>
       /\ pc' = "done"
       /\ error' = "none"
       /\ event_count' = event_count
       /\ frames' = frames
    ]_vars

C21_Witness ==
  /\ pc = "done"
  /\ error = "none"
  /\ ~should_end
  /\ event_count = 1
  /\ cur = 1
  /\ current_time = 0
  /\ next_id - 1 > event_count
  /\ event_heap = << >>

\* C22: two balls of radius 0.4 in the domain (6,2), no gravity, restitution
\* 1, starting at (1,1) with velocity (1,0) and at (5,1) with velocity (-1,0),
\* each registered in the cell floor(position): the first ball-ball collision
\* is processed at t = 1.6 and leaves the velocities (-1,0) and (1,0).  Times
\* in ticks of 0.01; no wall is reached before t = 3.79.
C22_HeadOnCollision ==
  LET t_hit == 160
      t_wall == 379
      start == [i \in 0 .. 1 |-> [a \in Axes |-> IF a = 1 THEN 100 ELSE IF i = 0 THEN 100 ELSE 500]]
      after == [i \in 0 .. 1 |-> [a \in Axes |-> IF a = 1 THEN 0 ELSE IF i = 0 THEN -1 ELSE 1]]
  IN params.positions = start =>
       /\ current_time > t_hit => \A b \in DOMAIN balls : balls[b].time >= t_hit
       /\ \A b \in DOMAIN balls :
            balls[b].time > 0 /\ current_time < t_wall =>
              balls[b].time = t_hit /\ balls[b].velocity = after[b]

\* C23: when a ball reaches two cell boundaries at the same time (a corner of
\* its cell, strictly inside the domain), both transits are processed at that
\* time, so that from then on the ball is registered in a cell it is in: once
\* the clock has passed the crossing, the stored cell contains the position
\* on both axes.
C23_CornerCrossing ==
  AfterEvent /\ ~params.gravity =>
    \A b \in DOMAIN balls :
      \A tc \in (balls[b].time + 1) .. (current_time - 1) :
        LET corner == get_position_at_time(balls[b], tc, params.gravity)
        IN (\A a \in Axes : /\ balls[b].velocity[a] # 0
                             /\ corner[a] % CellSize = 0
                             /\ 0 < corner[a] /\ corner[a] < params.domain_size[a]) =>
             \A a \in Axes :
               /\ balls[b].cell[a] * CellSize <= PositionNow(b)[a]
               /\ PositionNow(b)[a] <= (balls[b].cell[a] + 1) * CellSize

\* every ball has been at rest since the start, and there is no gravity
AllAtRest ==
  /\ pc \in {"loop", "generate", "done", "aborted"}
  /\ ~params.gravity
  /\ \A b \in DOMAIN balls : balls[b].time = 0 /\ \A a \in Axes : balls[b].velocity[a] = 0

\* C24: when every ball starts with zero velocity and gravity is off, no
\* ball-ball, ball-wall or grid-transit event is ever created or processed:
\* the only events are the exports and the end event, the run ends through
\* the end event at simulation_time, and every snapshot equals the initial
\* state.
C24_NothingHappensAtRest ==
  AllAtRest =>
    /\ \A id \in DOMAIN events : events[id].kind \in {"ExportEvent", "EndEvent"}
    /\ next_id = (params.simulation_time \div params.output_rate) + 3
    /\ \A b \in DOMAIN balls : balls[b].events = << >>
    /\ error = "none"
    /\ pc \in {"loop", "done"}
    /\ pc = "done" =>
         should_end /\ events[cur].kind = "EndEvent" /\ current_time = params.simulation_time
    /\ \A f \in 1 .. Len(frames) : \A b \in DOMAIN balls :
         /\ frames[f].positions[b] = InitialBall(params, b, balls[b].velocity).position
         /\ frames[f].velocities[b] = [a \in Axes |-> 0]

C24_Witness ==
  /\ AllAtRest
  /\ pc = "done"
  /\ params.num_balls = MaxBalls
  /\ balls[0].radius = MaxRadius
  /\ Len(frames) >= 2
  /\ frames[Len(frames)].time > 0

\* the sum of f[0], ..., f[n - 1]
RECURSIVE Sum(_, _)
Sum(f, n) == IF n = 0 THEN 0 ELSE f[n - 1] + Sum(f, n - 1)

\* the sum of the velocity vectors, and twice the kinetic energy, of a list
\* of velocities
TotalVelocity(vs) ==
  [a \in Axes |-> Sum([b \in DOMAIN vs |-> vs[b][a]], Cardinality(DOMAIN vs))]
TwiceKineticEnergy(vs) ==
  Sum([b \in DOMAIN vs |-> Dot(vs[b], vs[b])], Cardinality(DOMAIN vs))

\* a run without gravity and with both restitutions 1
Elastic ==
  /\ pc \in {"loop", "generate", "done", "aborted"}
  /\ ~params.gravity
  /\ params.ball_restitution = 1
  /\ params.wall_restitution = 1

C26_EnergyConserved ==
  Elastic =>
    \A f \in 1 .. Len(frames) :
      /\ TwiceKineticEnergy(frames[f].velocities) = TwiceKineticEnergy(frames[1].velocities)
      /\ TwiceKineticEnergy([b \in DOMAIN balls |-> balls[b].velocity])
           = TwiceKineticEnergy(frames[1].velocities)

C26_Witness ==
  /\ Elastic
  /\ pc = "loop"
  /\ cur \in DOMAIN events
  /\ events[cur].kind = "BallWallCollision"
  /\ Len(frames) >= 2
  /\ \E b \in DOMAIN balls :
       /\ balls[b].time > 0 /\ balls[b].time < current_time
       /\ frames[1].velocities[b] # balls[b].velocity
  /\ frames[1].velocities[events[cur].ball1] # balls[events[cur].ball1].velocity

\* C27: every ball-ball, ball-wall or grid-transit event created while an
\* event at time t_now is processed, or at initialization with t_now = 0, has
\* a time strictly greater than t_now.
C27_NewEventsInFuture ==
  /\ \A id \in DOMAIN events :
       events[id].kind \notin {"ExportEvent", "EndEvent"} => events[id].time > 0
  /\ [][\A id \in next_id .. (next_id' - 1) :
          /\ id \in DOMAIN events'
          /\ events'[id].kind \in {"BallBallCollision", "BallWallCollision", "BallGridTransit"}
          /\ events'[id].time > current_time'
       ]_vars

C27_Witness ==
  /\ pc = "loop"
  /\ cur \in DOMAIN events
  /\ events[cur].kind = "BallBallCollision"
  /\ current_time > 0
  /\ \E id \in Queued :
       /\ id > cur /\ events[id].valid /\ events[id].kind = "BallWallCollision"
       /\ Mentions(events[id], events[cur].ball1) /\ events[id].time > current_time
  /\ \E id \in Queued :
       /\ id > cur /\ events[id].valid /\ events[id].kind = "BallGridTransit"
       /\ Mentions(events[id], events[cur].ball2) /\ events[id].time > current_time

\* C28: at every point of a run every ball's local time is at most the
\* simulation clock and never decreases, so no predictor, export or advance
\* asks for a ball's state at a time before its local time: the past-time
\* error is never raised.
C28_LocalTimeBehindClock ==
  /\ \A b \in DOMAIN balls : balls[b].time <= current_time
  /\ [][/\ \A b \in DOMAIN balls :
            /\ balls[b].time <= balls'[b].time
            /\ balls'[b].time <= current_time'
            /\ ~PastTime(balls[b], current_time')
         /\ error' # "ValueError"
       ]_vars

C28_Witness ==
  /\ pc = "loop"
  /\ cur \in DOMAIN events
  /\ events[cur].kind = "ExportEvent"
  /\ frames # << >>
  /\ frames[Len(frames)].time = current_time
  /\ \E b \in DOMAIN balls : 0 < balls[b].time /\ balls[b].time < current_time
  /\ \E b \in DOMAIN balls : balls[b].time = 0 /\ balls[b].velocity # [a \in Axes |-> 0]

\* the generations recorded in event id are the current ones of its balls
GenerationCurrent(id) ==
  \A b \in DOMAIN balls : Mentions(events[id], b) => twin.rec[id][b] = twin.gen[b]

\* C29: the valid flag of every event in the queue is true exactly when no
\* ball it mentions has had a collision processed since the event was
\* constructed: the back-references agree with generation counters, so
\* get_next_event discards exactly the events whose recorded generations are
\* no longer the current ones.
C29_ValidIffGenerationCurrent ==
  pc = "backref" =>
    /\ \A id \in Queued : events[id].valid <=> GenerationCurrent(id)
    /\ LET r == get_next_event(events, event_heap)
       IN /\ r.event # None => GenerationCurrent(r.event)
          /\ \A id \in Queued \ ({r.event} \cup {r.heap[k] : k \in 1 .. Len(r.heap)}) :
               ~GenerationCurrent(id)

C29_Witness ==
  /\ pc = "backref"
  /\ \E id \in Queued :
       /\ events[id].kind = "BallBallCollision"
       /\ ~events[id].valid
       /\ twin.rec[id][0] = twin.gen[0]
       /\ twin.rec[id][1] # twin.gen[1]
  /\ \E id \in Queued : events[id].valid /\ Mentions(events[id], 1)
  /\ get_next_event(events, event_heap).heap # Tail(event_heap)

\* C30: when a ball-ball event is processed, every other ball-ball event of
\* the same pair that is in the queue (the pair predicted a second time, on
\* a grid transit or after a collision) is invalid afterwards; an invalid
\* event never becomes valid again, and only an event that is valid is
\* processed, so that the other prediction of the contact is discarded.
C30_OnePerContact ==
  [][/\ event_count' = event_count + 1 /\ events'[cur'].kind = "BallBallCollision" =>
          \A id \in {event_heap'[k] : k \in 1 .. Len(event_heap')} \ {cur'} :
            /\ events'[id].kind = "BallBallCollision"
            /\ {events'[id].ball1, events'[id].ball2} = {events'[cur'].ball1, events'[cur'].ball2}
            => ~events'[id].valid
     /\ event_count' = event_count + 1 => cur' \in Queued /\ events[cur'].valid
     /\ \A id \in DOMAIN events \cap DOMAIN events' : ~events[id].valid => ~events'[id].valid
    ]_vars

C30_Witness ==
  /\ pc = "loop"
  /\ cur \in DOMAIN events
  /\ events[cur].kind = "BallBallCollision"
  /\ \E id \in Queued \ {cur} :
       /\ events[id].kind = "BallBallCollision"
       /\ {events[id].ball1, events[id].ball2} = {events[cur].ball1, events[cur].ball2}
       /\ events[id].time = events[cur].time
       /\ ~events[id].valid
       /\ get_next_event(events, event_heap).event # None
       /\ id \notin {get_next_event(events, event_heap).heap[k] :
                       k \in 1 .. Len(get_next_event(events, event_heap).heap)}

\* C31: between events, two balls whose centres are at most r_i + r_j apart
\* at the simulation clock are registered in cells that are equal or
\* adjacent (at most 1 apart on every axis).
C31_TouchingImpliesAdjacent ==
  pc = "loop" =>
    \A i, j \in DOMAIN balls :
      (i < j /\ LET d == [a \in Axes |-> PositionNow(j)[a] - PositionNow(i)[a]]
                    reach == balls[i].radius + balls[j].radius
                IN Dot(d, d) <= reach * reach)
      => \A a \in Axes : Abs(balls[i].cell[a] - balls[j].cell[a]) <= 1

\* the ball is, at time t, on a boundary of its stored cell along an axis it
\* moves along (an axis the predictor examines)
OnBoundary(b, t, axis) ==
  /\ get_velocity_at_time(balls[b], current_time, params.gravity)[axis] # 0
     \/ (axis = 1 /\ params.gravity)
  /\ get_position_at_time(balls[b], t, params.gravity)[axis]
       \in {balls[b].cell[axis] * CellSize, (balls[b].cell[axis] + 1) * CellSize}

\* C32: what calculate_ball_grid_transit_time returns for a ball at the
\* simulation clock is None, and then the ball reaches no boundary of its
\* cell later, or a time strictly after the clock that is the first at which
\* the ball reaches a boundary of its cell, with a new cell that differs from
\* the cell by 1 on exactly one axis, the axis of that boundary and the side
\* of it; when boundaries on both axes are reached together, axis 0 wins.
C32_EarliestCrossing ==
  pc = "loop" =>
    \A b \in DOMAIN balls :
      LET r == calculate_ball_grid_transit_time(balls[b], current_time, CellSize, params.gravity)
          changed == {a \in Axes : r.new_cell[a] # balls[b].cell[a]}
      IN /\ r.time = None =>
              \A t \in (current_time + 1) .. MaxSimTime, a \in Axes : ~OnBoundary(b, t, a)
         /\ IsTime(r.time) =>
              /\ r.time > current_time
              /\ \A t \in (current_time + 1) .. (r.time - 1), a \in Axes : ~OnBoundary(b, t, a)
              /\ Cardinality(changed) = 1
              /\ \A a \in changed :
                   /\ Abs(r.new_cell[a] - balls[b].cell[a]) = 1
                   /\ OnBoundary(b, r.time, a)
                   /\ get_position_at_time(balls[b], r.time, params.gravity)[a]
                        = (IF r.new_cell[a] > balls[b].cell[a] THEN r.new_cell[a]
                           ELSE balls[b].cell[a]) * CellSize
                   /\ \A lower \in Axes : OnBoundary(b, r.time, lower) => a <= lower

C32_Witness ==
  /\ pc = "loop"
  /\ event_count > 0
  /\ \E b \in DOMAIN balls :
       LET r == calculate_ball_grid_transit_time(balls[b], current_time, CellSize, params.gravity)
       IN /\ IsTime(r.time)
          /\ r.time > current_time + 1
          /\ \A a \in Axes : OnBoundary(b, r.time, a)
          /\ r.new_cell[0] # balls[b].cell[0]

C34_TransitInsideGrid ==
  [][ProcessBallGridTransit =>
       LET e == events[cur']
           b == e.ball1
       IN /\ is_valid_cell(grid, balls[b].cell)
          /\ ListHas(grid.cells[CellKey(balls[b].cell)], b)
          /\ is_valid_cell(grid, e.new_cell)
          /\ error' \notin {"IndexError", "ValueError"}
    ]_vars

\* the valid grid-transit events of ball b in the queue
ValidTransits(b) ==
  {id \in Queued : /\ events[id].kind = "BallGridTransit"
                   /\ events[id].ball1 = b
                   /\ events[id].valid}

\* C35: in every state, the states inside a collision handler included, the
\* queue holds at most one valid grid-transit event of each ball; and a step
\* that creates a grid-transit event of a ball creates one, at a moment when
\* the queue holds no other valid one of that ball (the previous one has been
\* popped for processing or invalidated).
C35_OneTransitPerBall ==
  /\ [](\A b \in DOMAIN balls : Cardinality(ValidTransits(b)) <= 1)
  /\ [][\A b \in DOMAIN balls :
          LET created == {id \in next_id .. (next_id' - 1) :
                            events'[id].kind = "BallGridTransit" /\ events'[id].ball1 = b}
          IN /\ Cardinality(created) <= 1
             /\ created # {} =>
                  /\ ValidTransits(b) \subseteq {cur'}
                  /\ \A id \in Queued \ created :
                       id \in DOMAIN events' /\ events'[id].kind = "BallGridTransit"
                       /\ events'[id].ball1 = b
                       => ~events'[id].valid \/ id = cur'
                  /\ Cardinality(ValidTransits(b)') = 1
       ]_vars

C35_Witness ==
  /\ pc = "loop"
  /\ cur \in DOMAIN events
  /\ events[cur].kind = "BallBallCollision"
  /\ \A b \in DOMAIN balls :
       /\ Cardinality(ValidTransits(b)) = 1
       /\ \E id \in Queued : /\ events[id].kind = "BallGridTransit"
                             /\ events[id].ball1 = b
                             /\ ~events[id].valid

\* C36: whenever a valid ball-ball collision is processed, the two balls are
\* touching and approaching along the line of centres at the event time, so
\* the resolver's separating guard does not fire and both velocities change.
C36_TouchingAndApproaching ==
  [][ProcessBallBallCollision /\ pc' = "generate" =>
       LET e == events[cur']
           u1 == update_to_time(balls[e.ball1], e.time, params.gravity)
           u2 == update_to_time(balls[e.ball2], e.time, params.gravity)
           rel_pos == [a \in Axes |-> u2.position[a] - u1.position[a]]
           rel_vel == [a \in Axes |-> u2.velocity[a] - u1.velocity[a]]
           reach == u1.radius + u2.radius
       IN /\ Dot(rel_pos, rel_pos) = reach * reach
          /\ Dot(rel_vel, rel_pos) < 0
          /\ balls'[e.ball1].velocity # u1.velocity
          /\ balls'[e.ball2].velocity # u2.velocity
    ]_vars

\* C37: for any ball state and any times t_b <= t1 <= t2, advancing the ball
\* to t1 and then to t2 yields the same position, velocity and local time as
\* advancing it directly to t2, with and without gravity.
C37_AdvanceComposes ==
  pc = "ball" =>
    \A t1 \in balls[0].time .. MaxBallTime : \A t2 \in t1 .. MaxBallTime :
      LET g == params.gravity
          twice == update_to_time(update_to_time(balls[0], t1, g), t2, g)
          direct == update_to_time(balls[0], t2, g)
      IN /\ ~PastTime(balls[0], t1)
         /\ ~PastTime(update_to_time(balls[0], t1, g), t2)
         /\ twice.position = direct.position
         /\ twice.velocity = direct.velocity
         /\ twice.time = direct.time
         /\ direct.time = t2

C37_Witness ==
  /\ pc = "ball"
  /\ params.gravity
  /\ balls[0].time = 1
  /\ balls[0].velocity[0] # 0
  /\ LET half == update_to_time(balls[0], 2, TRUE)
         twice == update_to_time(half, MaxBallTime, TRUE)
     IN /\ half.position # balls[0].position
        /\ twice.position # half.position
        /\ twice.velocity # half.velocity
        /\ twice = update_to_time(balls[0], MaxBallTime, TRUE)

(***************************************************************************)
(* physics.py's ball-ball resolver on its own: three balls of radius 5 in  *)
(* a row, the middle one in contact with both others along any direction   *)
(* with whole coordinates, any velocities of the first two, and the pairs   *)
(* are resolved in any order, touching or not, approaching or not.  twin    *)
(* keeps the pair resolved last and the balls as they were before it.      *)
(***************************************************************************)
MaxResolves == 2

ResolveInit ==
  /\ params \in [ball_restitution : Restitutions, gravity : {FALSE}]
  /\ \E d \in {c \in [Axes -> -10 .. 10] : Dot(c, c) = 100} :
     \E v0, v1 \in [Axes -> {-5, 0, 5}] :
     \E v2 \in {[a \in Axes |-> IF a = 0 THEN 5 ELSE 0], [a \in Axes |-> IF a = 0 THEN 0 ELSE -5]} :
       balls = [i \in 0 .. 2 |->
                  Ball([a \in Axes |-> IF i = 1 THEN d[a] ELSE IF i = 2 THEN -d[a] ELSE 0],
                       IF i = 0 THEN v0 ELSE IF i = 1 THEN v1 ELSE v2, 5, i, NoCell)]
  /\ twin = [pair |-> << >>, before |-> << >>]
  /\ pc = "resolve"
  /\ event_count = 0
  /\ current_time = 0
  /\ frames = << >>
  /\ error = "none"
  /\ cur = 0
  /\ events = << >>
  /\ event_heap = << >>
  /\ next_id = 1
  /\ grid = << >>
  /\ should_end = FALSE

\* BallBallCollision.process on the pair (i, j) at the balls' local time
ResolvePair ==
  /\ pc = "resolve"
  /\ event_count < MaxResolves
  /\ \E i, j \in DOMAIN balls :
       /\ i # j
       /\ LET u1 == update_to_time(balls[i], current_time, params.gravity)
              u2 == update_to_time(balls[j], current_time, params.gravity)
              c == perform_ball_ball_collision(u1, u2, params.ball_restitution)
              w == invalidate_all_events(
                     invalidate_all_events(
                       World(events, next_id, [balls EXCEPT ![i] = c[1], ![j] = c[2]]), i), j)
          IN /\ ball_ball_exact(u1, u2, params.ball_restitution)
             /\ balls' = w.balls
             /\ events' = w.events
       /\ twin' = [pair |-> << i, j >>, before |-> balls]
  /\ event_count' = event_count + 1
  /\ UNCHANGED << params, grid, next_id, event_heap, current_time, should_end,
                  frames, pc, cur, error >>

ResolveSpec == ResolveInit /\ [][ResolvePair]_vars

\* C38: resolving a ball-ball collision changes the two velocities by equal
\* and opposite vectors along the line of centres, so the sum v1 + v2 of the
\* participants is unchanged for every restitution, and the velocity of no
\* other ball is touched.
C38_EqualAndOpposite ==
  [][ResolvePair =>
       LET i == twin'.pair[1]
           j == twin'.pair[2]
           d1 == [a \in Axes |-> balls'[i].velocity[a] - balls[i].velocity[a]]
           d2 == [a \in Axes |-> balls'[j].velocity[a] - balls[j].velocity[a]]
           rel_pos == [a \in Axes |-> balls[j].position[a] - balls[i].position[a]]
       IN /\ \A a \in Axes : d1[a] = -d2[a]
          /\ d1[0] * rel_pos[1] = d1[1] * rel_pos[0]
          /\ \A a \in Axes : balls'[i].velocity[a] + balls'[j].velocity[a]
                               = balls[i].velocity[a] + balls[j].velocity[a]
          /\ \A k \in DOMAIN balls \ {i, j} : balls'[k].velocity = balls[k].velocity
          /\ \A k \in DOMAIN balls : balls'[k].position = balls[k].position
    ]_vars

C38_Witness ==
  /\ pc = "resolve"
  /\ twin.pair = << 0, 1 >>
  /\ params.ball_restitution = 0
  /\ balls[1].position[0] # 0 /\ balls[1].position[1] # 0
  /\ balls[0].velocity # twin.before[0].velocity
  /\ balls[1].velocity # twin.before[1].velocity
  /\ balls[2].velocity = twin.before[2].velocity
  /\ balls[0].velocity[0] # 0 /\ balls[0].velocity[1] # 0
====
